---------------------------- MODULE Spec2Model ----------------------------
(***************************************************************************)
(* A model of the context-md audio pipeline:                               *)
(*   - pipeline_server.py: the dispatcher thread (main / process_command / *)
(*     run_pipeline / send_response) and the background loader thread      *)
(*     (background_load_and_warmup / load_models / warmup_models);         *)
(*   - pipeline.py: the one-shot executor (process_audio);                 *)
(*   - whisperX/whisperx_transcriber.py: transcribe_and_diarize,           *)
(*     _filter_hallucinations, extract_clean_format, save_results.         *)
(* Three specifications share the variables: Spec (the server), SpecJob    *)
(* (one job in either executor), SpecTurns (the transcriber's functions).  *)
(***************************************************************************)
EXTENDS Integers, Sequences, FiniteSets, TLC

VARIABLES
    \* ---- pipeline_server.py, the dispatcher thread
    pc,                     \* where main()/process_command is
    cur,                    \* the request line being processed
    stdin,                  \* lines the client wrote that were not read yet
    nlines,                 \* lines read from stdin so far (empty ones too)
    nread,                  \* non-empty lines read so far
    msg,                    \* the response the dispatcher is sending
    main_saved,             \* redirect_stdout's saved target, dispatcher thread
    \* ---- pipeline_server.py, the background loader thread
    bgpc,                   \* where background_load_and_warmup is
    loaded_models,          \* load_models' local dict
    bg_saved,               \* redirect_stdout's saved target, loader thread
    \* ---- pipeline_server.py, the module globals
    models,                 \* the registry: worker -> loaded?
    models_loading_errors,  \* workers whose load raised
    models_ready_event,     \* threading.Event
    sys_stdout,             \* what the name sys.stdout is bound to
    stdout,                 \* what was written to the real standard output
    stderr,                 \* responses that were written to standard error
    \* ---- one job of an executor (run_pipeline or process_audio)
    jmode,                  \* "server" | "oneshot" | "none"
    jpc,                    \* the stage the job is at
    job,                    \* the job's options and local variables
    fs,                     \* the files on disk: path -> content
    started,                \* the stages that started, in order
    \* ---- whisperx_transcriber.py on one recording
    tpc,                    \* where the transcriber run is
    segs,                   \* result['segments']
    diar,                   \* how the diarization step ended
    lean,                   \* extract_clean_format's turns
    \* ---- sealion/translator.py, one call of translate_json
    xpc,                    \* where translate_json is
    given,                  \* the transcript as the caller passed it
    json_data,              \* the caller's object, as it is now
    translated_data,        \* translate_json's copy
    translated_texts,       \* the texts that came back, by position
    api_calls,              \* the requests sent to the SEA-LION API
    bulk_reply,             \* what the bulk request came to
    gaps,                   \* for each request, the least time from its
                            \* sending to the next thing the translator does
    \* ---- aws/s3_downloader.py, one S3AudioDownloader
    s3_calls,               \* the requests sent to the object store
    resolved,               \* the calls of download_audio_file that returned
    head_code,              \* how the last head request ended
    raised,                 \* what the last call raised to its caller
    \* ---- aws/transcriber.py, one AWSTranscriber
    s3,                     \* the region self.s3 is bound to
    heads,                  \* the head requests of verify_s3_file
    \* ---- clinical_extractor_llm/extractor.py, one extract_clinical_info
    cpc,                    \* where extract_clinical_info is
    transcript_text,        \* json_to_text(json_data), as a set of words
    generator,              \* whether self.generator is loaded
    outputs,                \* how each generation request ended, in order
    clinical                \* what extract_clinical_info returned

srvvars == <<pc, cur, stdin, nlines, nread, msg, main_saved, bgpc,
             loaded_models, bg_saved, models, models_loading_errors, models_ready_event,
             sys_stdout, stdout, stderr>>
jobvars == <<jmode, jpc, job, fs, started>>
turnvars == <<tpc, segs, diar, lean>>
xlvars == <<xpc, given, json_data, translated_data, translated_texts,
            api_calls, bulk_reply, gaps>>
dlvars == <<s3_calls, resolved, head_code, raised>>
awsvars == <<s3, heads>>
cxvars == <<cpc, transcript_text, generator, outputs, clinical>>
libvars == <<xlvars, dlvars, awsvars, cxvars>>
vars == <<srvvars, jobvars, turnvars, libvars>>

\* ------------------------------------------------------------------ bounds
\* Lines the dispatcher reads from stdin before the model stops reading.
MaxLines == 1

\* ---------------------------------------------------------------- registry
Workers == {"whisperx", "translator", "clinical", "s3"}
NoneLoaded == [w \in Workers |-> FALSE]

\* ============================== standard output ==========================
\* A line written to sys.stdout: who wrote it, for which request line (0:
\* none), what it is ("print": a line of print(), not a response), and the
\* fields of a response that the claims read.
Response(src, req, typ, status, ready, trace, rar) ==
    [src |-> src, req |-> req, typ |-> typ, status |-> status,
     ready |-> ready, trace |-> trace, readAfterReady |-> rar]

NoMsg == Response("none", 0, "none", "none", FALSE, FALSE, FALSE)

\* A line of print() by `src`, about `what`.
PrintMsg(src, req, what) ==
    Response(src, req, "print", what, FALSE, FALSE, FALSE)

\* A line reaches its stream in two pieces, the head and the tail that ends
\* with the newline. print() writes its text and its end with two calls of
\* write. send_response calls sys.stdout.write once, on an io.TextIOWrapper
\* that is not safe for use by two threads, and takes no lock: between
\* threads its line is not atomic either. The stream is the one sys.stdout
\* names when the head is written.
HeadChunk(m) == [msg |-> m, part |-> 1]
TailChunk(m) == [msg |-> m, part |-> 2]

WriteTo(target, chunk) ==
    IF target = "stdout"
      THEN /\ stdout' = Append(stdout, chunk)
           /\ UNCHANGED stderr
      ELSE /\ stderr' = Append(stderr, chunk)
           /\ UNCHANGED stdout

\* A whole line written with no other thread in between.
WriteLineTo(target, m) ==
    IF target = "stdout"
      THEN /\ stdout' = stdout \o <<HeadChunk(m), TailChunk(m)>>
           /\ UNCHANGED stderr
      ELSE /\ stderr' = stderr \o <<HeadChunk(m), TailChunk(m)>>
           /\ UNCHANGED stdout

\* The stream that holds the head of m.
StreamOf(m) ==
    IF \E i \in 1..Len(stdout) : stdout[i] = HeadChunk(m)
      THEN "stdout" ELSE "stderr"

\* ============================ background loader ===========================
\* How one worker's import and constructor can end inside load_models.
\* "exit": sys.exit(1) (SystemExit is not an Exception): the import of
\* whisperx_transcriber.py or translator.py, S3AudioDownloader.__init__ (also
\* called by WhisperXTranscriber.__init__). ClinicalExtractorLLM never exits.
\* "nokey": SEALION_API_KEY is not set, the translator is disabled.
LoadOutcomes(w) ==
    CASE w = "whisperx"   -> {"ok", "raise", "exit"}
      [] w = "translator" -> {"ok", "nokey", "raise", "exit"}
      [] w = "clinical"   -> {"ok", "raise"}
      [] w = "s3"         -> {"ok", "raise", "exit"}

LoadPc(w) ==
    CASE w = "whisperx"   -> "load_whisperx"
      [] w = "translator" -> "load_translator"
      [] w = "clinical"   -> "load_clinical"
      [] w = "s3"         -> "load_s3"

PrintPc(w) ==
    CASE w = "whisperx"   -> "print_whisperx"
      [] w = "translator" -> "print_translator"
      [] w = "clinical"   -> "print_clinical"
      [] w = "s3"         -> "print_s3"

AfterLoad(w) ==
    CASE w = "whisperx"   -> "load_translator"
      [] w = "translator" -> "load_clinical"
      [] w = "clinical"   -> "load_s3"
      [] w = "s3"         -> "update"

\* The loader is a daemon thread: it runs only while the process lives.
Alive == pc \notin {"exited", "crashed", "interrupted"}

\* load_models, one try block per worker. A constructor that succeeds prints
\* to sys.stdout (the text of its last line here, the newline in
\* LoadPrintEnd). A raise is caught and noted. An exit prints its complaint
\* and ends the thread, past every `except Exception` of load_models and of
\* background_load_and_warmup.
LoadWorker(w) ==
    /\ Alive
    /\ bgpc = LoadPc(w)
    /\ \E o \in LoadOutcomes(w) :
         \/ /\ o = "ok"
            /\ loaded_models' = [loaded_models EXCEPT ![w] = TRUE]
            /\ WriteTo(sys_stdout, HeadChunk(PrintMsg("bg", 0, w)))
            /\ bgpc' = PrintPc(w)
            /\ UNCHANGED models_loading_errors
         \/ /\ o = "nokey"
            /\ loaded_models' = [loaded_models EXCEPT ![w] = FALSE]
            /\ bgpc' = AfterLoad(w)
            /\ UNCHANGED <<models_loading_errors, stdout, stderr>>
         \/ /\ o = "raise"
            /\ loaded_models' = [loaded_models EXCEPT ![w] = FALSE]
            /\ models_loading_errors' = Append(models_loading_errors, w)
            /\ bgpc' = AfterLoad(w)
            /\ UNCHANGED <<stdout, stderr>>
         \/ /\ o = "exit"
            /\ WriteLineTo(sys_stdout, PrintMsg("bg", 0, w))
            /\ bgpc' = "dead"
            /\ UNCHANGED <<loaded_models, models_loading_errors>>
    /\ UNCHANGED <<pc, cur, stdin, nlines, nread, msg, main_saved, bg_saved,
                   models, models_ready_event, sys_stdout>>
    /\ UNCHANGED <<jobvars, turnvars, libvars>>

\* The end of the constructor's print: the newline.
LoadPrintEnd(w) ==
    /\ Alive
    /\ bgpc = PrintPc(w)
    /\ WriteTo(StreamOf(PrintMsg("bg", 0, w)), TailChunk(PrintMsg("bg", 0, w)))
    /\ bgpc' = AfterLoad(w)
    /\ UNCHANGED <<pc, cur, stdin, nlines, nread, msg, main_saved,
                   loaded_models, bg_saved, models, models_loading_errors,
                   models_ready_event, sys_stdout>>
    /\ UNCHANGED <<jobvars, turnvars, libvars>>

\* with models_lock: models.update(loaded)
UpdateModels ==
    /\ Alive
    /\ bgpc = "update"
    /\ models' = loaded_models
    /\ bgpc' = "warmup_clinical"
    /\ UNCHANGED <<pc, cur, stdin, nlines, nread, msg, main_saved,
                   loaded_models, bg_saved, models_loading_errors,
                   models_ready_event, sys_stdout, stdout, stderr>>
    /\ UNCHANGED <<jobvars, turnvars, libvars>>

\* contextlib.redirect_stdout(sys.stderr).__enter__: the old binding of the
\* process-wide name sys.stdout is saved and the name is rebound.
\* warmup_models: WhisperXTranscriber has neither transcribe nor
\* transcribe_audio, so its warm-up does nothing; the clinical extractor's and
\* the translator's warm-ups run inside redirect_stdout(sys.stderr).
WarmupEnter(w, at, inside, next) ==
    /\ Alive
    /\ bgpc = at
    /\ IF models[w]
         THEN /\ bg_saved' = sys_stdout
              /\ sys_stdout' = "stderr"
              /\ bgpc' = inside
         ELSE /\ bgpc' = next
              /\ UNCHANGED <<bg_saved, sys_stdout>>
    /\ UNCHANGED <<pc, cur, stdin, nlines, nread, msg, main_saved,
                   loaded_models, models, models_loading_errors,
                   models_ready_event, stdout, stderr>>
    /\ UNCHANGED <<jobvars, turnvars, libvars>>

\* redirect_stdout.__exit__ rebinds sys.stdout to the saved target, whether
\* the warm-up call returned or raised (every raise is caught and logged).
WarmupExit(inside, next) ==
    /\ Alive
    /\ bgpc = inside
    /\ sys_stdout' = bg_saved
    /\ bgpc' = next
    /\ UNCHANGED <<pc, cur, stdin, nlines, nread, msg, main_saved,
                   loaded_models, bg_saved, models, models_loading_errors,
                   models_ready_event, stdout, stderr>>
    /\ UNCHANGED <<jobvars, turnvars, libvars>>

WarmupClinicalEnter ==
    WarmupEnter("clinical", "warmup_clinical", "in_warmup_clinical",
                "warmup_translator")
WarmupClinicalExit == WarmupExit("in_warmup_clinical", "warmup_translator")
WarmupTranslatorEnter ==
    WarmupEnter("translator", "warmup_translator", "in_warmup_translator",
                "set_ready")
WarmupTranslatorExit == WarmupExit("in_warmup_translator", "set_ready")

\* models_ready_event.set()
SetReady ==
    /\ Alive
    /\ bgpc = "set_ready"
    /\ models_ready_event' = TRUE
    /\ bgpc' = "send_head"
    /\ UNCHANGED <<pc, cur, stdin, nlines, nread, msg, main_saved,
                   loaded_models, bg_saved, models, models_loading_errors,
                   sys_stdout, stdout, stderr>>
    /\ UNCHANGED <<jobvars, turnvars, libvars>>

\* The health status the loader sends once the models are loaded.
BgStatus == Response("bg", 0, "health", "ok", models_ready_event, FALSE, TRUE)

BgSendHead ==
    /\ Alive
    /\ bgpc = "send_head"
    /\ WriteTo(sys_stdout, HeadChunk(BgStatus))
    /\ bgpc' = "send_tail"
    /\ UNCHANGED <<pc, cur, stdin, nlines, nread, msg, main_saved,
                   loaded_models, bg_saved, models, models_loading_errors,
                   models_ready_event, sys_stdout>>
    /\ UNCHANGED <<jobvars, turnvars, libvars>>

BgSendTail ==
    /\ Alive
    /\ bgpc = "send_tail"
    /\ WriteTo(StreamOf(BgStatus), TailChunk(BgStatus))
    /\ bgpc' = "done"
    /\ UNCHANGED <<pc, cur, stdin, nlines, nread, msg, main_saved,
                   loaded_models, bg_saved, models, models_loading_errors,
                   models_ready_event, sys_stdout>>
    /\ UNCHANGED <<jobvars, turnvars, libvars>>

\* ================================ the job =================================
\* A transcript value held by an executor: nothing, a JSON value in memory,
\* or the path of a file.
NoneV == [k |-> "none"]
MemV == [k |-> "mem"]
PathV(p) == [k |-> "path", p |-> p]

\* A file name: its directory, the stem taken from the audio's basename, and
\* the Unix timestamps in the name (0 where the name has none).
File(dir, base, ts, ts2) == [dir |-> dir, base |-> base, ts |-> ts, ts2 |-> ts2]

\* What a job is asked to process.
S3Audio == [scheme |-> "s3", base |-> "a"]
LocalAudio == [scheme |-> "local", base |-> "a"]
MissingAudio == [scheme |-> "local", base |-> "m"]
AudioInputs == {S3Audio, LocalAudio, MissingAudio}

LocalFile(a) == File("local", a.base, 0, 0)
CacheFile(a) == File("audio_cache", a.base, 0, 0)

\* The disk before any job: the one local recording.
InitFs == [p \in {LocalFile(LocalAudio)} |-> "audio"]

Exists(v) == v.k = "path" /\ v.p \in DOMAIN fs

WriteFile(f, p, c) == [q \in DOMAIN f \cup {p} |-> IF q = p THEN c ELSE f[q]]

\* Readings of int(time.time()).
Clock == {1, 2}

NewJob(st, sc, a) ==
    [skip_translation |-> st, skip_clinical |-> sc, audio_input |-> a,
     audio_path |-> NoneV, raw_transcript |-> NoneV,
     lean_transcript |-> NoneV, translated_transcript |-> NoneV,
     clinical_result |-> FALSE,
     status |-> "running",
     result |-> [success |-> FALSE, clinical_extraction |-> FALSE,
                 returned |-> {}],
     \* history, not program state: what the stages did
     translate |-> "none", extract |-> "none", wrote |-> {}]

IdleJob == NewJob(FALSE, FALSE, MissingAudio)

\* The except clause of run_pipeline, the raise of process_audio: the job ends
\* failed, and nothing on disk is touched.
Failed(j) == [j EXCEPT !.status = "failed",
                       !.result = [success |-> FALSE,
                                   clinical_extraction |-> FALSE,
                                   returned |-> {}]]

Wrote(j, p, c) == [j EXCEPT !.wrote = @ \cup {<<p, c>>}]

\* ---------------------------------------------------------- run_pipeline
SrvJob(at) == Alive /\ jmode = "server" /\ jpc = at

\* Step 1: an s3:// input goes to the downloader when the registry has one;
\* anything else must be an existing local path.
SrvResolve ==
    /\ SrvJob("resolve")
    /\ started' = Append(started, "Resolve")
    /\ IF job.audio_input.scheme = "s3" /\ models["s3"]
         THEN LET c == CacheFile(job.audio_input) IN
              \/ /\ c \in DOMAIN fs                  \* cache hit
                 /\ job' = [job EXCEPT !.audio_path = PathV(c)]
                 /\ jpc' = "transcribe"
                 /\ UNCHANGED fs
              \/ /\ c \notin DOMAIN fs               \* verified and fetched
                 /\ fs' = WriteFile(fs, c, "audio")
                 /\ job' = Wrote([job EXCEPT !.audio_path = PathV(c)],
                                 c, "audio")
                 /\ jpc' = "transcribe"
              \/ /\ c \notin DOMAIN fs               \* not found, or failed
                 /\ job' = Failed(job)
                 /\ jpc' = "ended"
                 /\ UNCHANGED fs
         ELSE LET p == LocalFile(job.audio_input) IN
              /\ UNCHANGED fs
              /\ IF job.audio_input.scheme = "local" /\ p \in DOMAIN fs
                   THEN /\ job' = [job EXCEPT !.audio_path = PathV(p)]
                        /\ jpc' = "transcribe"
                   ELSE /\ job' = Failed(job)        \* FileNotFoundError
                        /\ jpc' = "ended"
    /\ UNCHANGED <<jmode, srvvars, turnvars, libvars>>

\* WhisperXTranscriber.save_results: the raw JSON, then extract_clean_format
\* and the lean JSON, both named with one reading of the clock.
RawFile(j, ts) == File("00_transcripts", j.audio_path.p.base, ts, 0)
LeanFile(j, ts) == File("01_transcripts_lean", j.audio_path.p.base, ts, 0)

\* C7 mutant: the availability check of Step 2 left out.
C7_AlwaysAvailable == TRUE

\* if not models.get('whisperx'): raise RuntimeError("WhisperX not available")
WhisperXAvailable == models["whisperx"]

\* transcribe_and_diarize and save_results print their progress to sys.stdout,
\* which run_pipeline redirects only around Translate and Extract.
TranscriberPrints ==
    WriteLineTo(sys_stdout, PrintMsg("main", cur.n, "transcribe"))

\* Step 2. The registry's transcriber is a WhisperXTranscriber: it has no
\* transcribe_audio, so the transcribe_and_diarize branch runs (the keyword
\* audio_file raises TypeError, the positional call follows), and
\* save_results is called inside a try whose except only logs.
SrvTranscribe ==
    /\ SrvJob("transcribe")
    /\ IF ~WhisperXAvailable
         THEN /\ job' = Failed(job)                 \* WhisperX not available
              /\ jpc' = "ended"
              /\ UNCHANGED <<fs, started, stdout, stderr>>
         ELSE /\ started' = Append(started, "Transcribe")
              /\ \/ /\ job' = Failed(job)           \* raised before any print
                    /\ jpc' = "ended"
                    /\ UNCHANGED <<fs, stdout, stderr>>
                 \/ /\ job' = Failed(job)           \* raised after a print
                    /\ jpc' = "ended"
                    /\ TranscriberPrints
                    /\ UNCHANGED fs
                 \/ \E ts \in Clock :               \* saved
                      LET r == RawFile(job, ts)
                          l == LeanFile(job, ts) IN
                      /\ fs' = WriteFile(WriteFile(fs, r, "raw"), l, "lean")
                      /\ job' = Wrote(Wrote(
                                  [job EXCEPT !.raw_transcript = PathV(r),
                                              !.lean_transcript = PathV(l)],
                                  r, "raw"), l, "lean")
                      /\ jpc' = "translate"
                      /\ TranscriberPrints
                 \/ \E ts \in Clock, rawWritten \in BOOLEAN :
                      \* save_results raised: "non-fatal", json.dumps(result)
                      LET r == RawFile(job, ts)
                          j == [job EXCEPT !.raw_transcript = MemV,
                                           !.lean_transcript = MemV] IN
                      /\ IF rawWritten
                           THEN /\ fs' = WriteFile(fs, r, "raw")
                                /\ job' = Wrote(j, r, "raw")
                           ELSE /\ fs' = fs
                                /\ job' = j
                      /\ jpc' = "translate"
                      /\ TranscriberPrints
                 \/ /\ job' = Failed(job)   \* save_results and json.dumps raised
                    /\ jpc' = "ended"
                    /\ TranscriberPrints
                    /\ UNCHANGED fs
    /\ UNCHANGED <<pc, cur, stdin, nlines, nread, msg, main_saved, bgpc,
                   loaded_models, bg_saved, models, models_loading_errors,
                   models_ready_event, sys_stdout>>
    /\ UNCHANGED <<jmode, turnvars, libvars>>

\* C6 mutant: the translated transcript written over the lean transcript.
C6_TranslatedOverLean(l) == l

\* SEALionTranslator.translate_transcript and pipeline.translate_transcript:
\* <lean stem>_translated.json under 02_translated.
TranslatedFile(l) == File("02_translated", l.base, l.ts, 0)

\* Step 3, entry: the stage runs unless it is skipped or the registry has no
\* translator; it runs inside redirect_stdout(sys.stderr).
SrvTranslateBegin ==
    /\ SrvJob("translate")
    /\ IF ~job.skip_translation /\ models["translator"]
         THEN /\ started' = Append(started, "Translate")
              /\ main_saved' = sys_stdout
              /\ sys_stdout' = "stderr"
              /\ jpc' = "translating"
              /\ UNCHANGED job
         ELSE /\ job' = [job EXCEPT
                    !.translated_transcript = job.lean_transcript,
                    !.translate = IF job.skip_translation THEN "skipped"
                                                          ELSE "absent"]
              /\ jpc' = "extract"
              /\ UNCHANGED <<started, main_saved, sys_stdout>>
    /\ UNCHANGED <<pc, cur, stdin, nlines, nread, msg, bgpc, loaded_models,
                   bg_saved, models, models_loading_errors,
                   models_ready_event, stdout, stderr>>
    /\ UNCHANGED <<jmode, fs, turnvars, libvars>>

\* Step 3, the call and the exit of the redirect. A lean transcript on disk
\* goes to translate_transcript, which returns the translated file's path, or
\* the lean path when the transcript is English or anything failed. A lean
\* transcript in memory is the raw result's JSON: translate_json raises on it
\* (no 'turns'), the except logs, and the lean transcript is kept.
SrvTranslateEnd ==
    /\ SrvJob("translating")
    /\ sys_stdout' = main_saved
    /\ jpc' = "extract"
    /\ IF Exists(job.lean_transcript)
         THEN LET t == TranslatedFile(job.lean_transcript.p) IN
              \/ /\ fs' = WriteFile(fs, t, "translated")
                 /\ job' = Wrote([job EXCEPT
                              !.translated_transcript = PathV(t),
                              !.translate = "ok"], t, "translated")
              \/ \E how \in {"english", "failed"} :
                   /\ job' = [job EXCEPT
                         !.translated_transcript = job.lean_transcript,
                         !.translate = how]
                   /\ UNCHANGED fs
         ELSE /\ job' = [job EXCEPT
                    !.translated_transcript = job.lean_transcript,
                    !.translate = "failed"]
              /\ UNCHANGED fs
    /\ UNCHANGED <<pc, cur, stdin, nlines, nread, msg, main_saved, bgpc,
                   loaded_models, bg_saved, models, models_loading_errors,
                   models_ready_event, stdout, stderr>>
    /\ UNCHANGED <<jmode, started, turnvars, libvars>>

\* <stem without _translated>_clinical_<ts>.json (run_pipeline) and
\* <stem without _translated>_clinical.json (process_audio). The stem of a
\* transcript that is not a file is that of the JSON text itself.
StemOf(v) == IF v.k = "path" THEN v.p ELSE File("none", "json", 0, 0)
SrvClinicalFile(v, ts2) ==
    File("03_clinical_extraction", StemOf(v).base, StemOf(v).ts, ts2)
ClinicalFile(v) ==
    File("03_clinical_extraction", StemOf(v).base, StemOf(v).ts, 0)

\* Step 4, entry.
SrvExtractBegin ==
    /\ SrvJob("extract")
    /\ IF ~job.skip_clinical /\ models["clinical"]
         THEN /\ started' = Append(started, "Extract")
              /\ main_saved' = sys_stdout
              /\ sys_stdout' = "stderr"
              /\ jpc' = "extracting"
              /\ UNCHANGED job
         ELSE /\ job' = [job EXCEPT
                    !.extract = IF job.skip_clinical THEN "skipped"
                                                     ELSE "absent"]
              /\ jpc' = "finish"
              /\ UNCHANGED <<started, main_saved, sys_stdout>>
    /\ UNCHANGED <<pc, cur, stdin, nlines, nread, msg, bgpc, loaded_models,
                   bg_saved, models, models_loading_errors,
                   models_ready_event, stdout, stderr>>
    /\ UNCHANGED <<jmode, fs, turnvars, libvars>>

\* Step 4, the call: the except clause logs whatever was raised; clinical_result
\* keeps the value it had when the raise happened.
SrvExtractEnd ==
    /\ SrvJob("extracting")
    /\ sys_stdout' = main_saved
    /\ jpc' = "finish"
    /\ \/ \E ts2 \in Clock :
            LET c == SrvClinicalFile(job.translated_transcript, ts2) IN
            /\ fs' = WriteFile(fs, c, "clinical")
            /\ job' = Wrote([job EXCEPT !.clinical_result = TRUE,
                                        !.extract = "ok"], c, "clinical")
       \/ /\ job' = [job EXCEPT !.extract = "failed"]   \* reading or extracting
          /\ UNCHANGED fs
       \/ /\ job' = [job EXCEPT !.clinical_result = TRUE, \* writing the file
                                !.extract = "failed_write"]
          /\ UNCHANGED fs
    /\ UNCHANGED <<pc, cur, stdin, nlines, nread, msg, main_saved, bgpc,
                   loaded_models, bg_saved, models, models_loading_errors,
                   models_ready_event, stdout, stderr>>
    /\ UNCHANGED <<jmode, started, turnvars, libvars>>

\* The result dict of a job that got through.
Done(j) ==
    [j EXCEPT !.status = "done",
              !.result = [success |-> TRUE,
                          clinical_extraction |-> j.clinical_result,
                          returned |-> {"raw_transcript", "lean_transcript",
                                        "translated_transcript"}]]

SrvFinish ==
    /\ SrvJob("finish")
    /\ job' = Done(job)
    /\ jpc' = "ended"
    /\ UNCHANGED <<jmode, fs, started, srvvars, turnvars, libvars>>

\* --------------------------------------------- pipeline.py: process_audio
\* AudioProcessingPipeline: models["s3"] and models["translator"] stand for
\* self.s3_downloader and self.translator being set; the constructor raises
\* when the transcriber or the extractor cannot be built.
OsJob(at) == jmode = "oneshot" /\ jpc = at

\* Step 1: an s3:// input, or a path that does not exist while a downloader
\* is there, is downloaded (download_audio raises without a downloader).
OsResolve ==
    /\ OsJob("resolve")
    /\ started' = Append(started, "Resolve")
    /\ LET a == job.audio_input
           p == LocalFile(a)
           c == CacheFile(a)
           isLocal == a.scheme = "local" /\ p \in DOMAIN fs IN
       IF a.scheme = "s3" \/ (~isLocal /\ models["s3"])
         THEN IF ~models["s3"]
                THEN /\ job' = Failed(job)
                     /\ jpc' = "ended"
                     /\ UNCHANGED fs
                ELSE \/ /\ c \in DOMAIN fs
                        /\ job' = [job EXCEPT !.audio_path = PathV(c)]
                        /\ jpc' = "transcribe"
                        /\ UNCHANGED fs
                     \/ /\ c \notin DOMAIN fs
                        /\ fs' = WriteFile(fs, c, "audio")
                        /\ job' = Wrote([job EXCEPT !.audio_path = PathV(c)],
                                        c, "audio")
                        /\ jpc' = "transcribe"
                     \/ /\ c \notin DOMAIN fs
                        /\ job' = Failed(job)
                        /\ jpc' = "ended"
                        /\ UNCHANGED fs
         ELSE /\ UNCHANGED fs
              /\ IF isLocal
                   THEN /\ job' = [job EXCEPT !.audio_path = PathV(p)]
                        /\ jpc' = "transcribe"
                   ELSE /\ job' = Failed(job)
                        /\ jpc' = "ended"
    /\ UNCHANGED <<jmode, srvvars, turnvars, libvars>>

\* Step 2: transcribe_audio = transcribe_and_diarize, then save_results;
\* either raising ends the job.
OsTranscribe ==
    /\ OsJob("transcribe")
    /\ started' = Append(started, "Transcribe")
    /\ \/ /\ job' = Failed(job)
          /\ jpc' = "ended"
          /\ UNCHANGED fs
       \/ \E ts \in Clock :
            LET r == RawFile(job, ts)
                l == LeanFile(job, ts) IN
            /\ fs' = WriteFile(WriteFile(fs, r, "raw"), l, "lean")
            /\ job' = Wrote(Wrote(
                        [job EXCEPT !.raw_transcript = PathV(r),
                                    !.lean_transcript = PathV(l)],
                        r, "raw"), l, "lean")
            /\ jpc' = "translate"
       \/ \E ts \in Clock, rawWritten \in BOOLEAN :
            LET r == RawFile(job, ts) IN
            /\ IF rawWritten
                 THEN /\ fs' = WriteFile(fs, r, "raw")
                      /\ job' = Failed(Wrote(job, r, "raw"))
                 ELSE /\ fs' = fs
                      /\ job' = Failed(job)
            /\ jpc' = "ended"
    /\ UNCHANGED <<jmode, srvvars, turnvars, libvars>>

\* Step 3: translate_transcript returns the lean path without a translator or
\* for an English transcript, writes the translated file, or raises; the
\* except clause of process_audio prints and raises again.
OsTranslate ==
    /\ OsJob("translate")
    /\ IF job.skip_translation \/ ~models["translator"]
         THEN /\ job' = [job EXCEPT
                    !.translated_transcript = job.lean_transcript,
                    !.translate = IF job.skip_translation THEN "skipped"
                                                          ELSE "absent"]
              /\ jpc' = "extract"
              /\ UNCHANGED <<fs, started>>
         ELSE /\ started' = Append(started, "Translate")
              /\ LET t == TranslatedFile(job.lean_transcript.p) IN
                 \/ /\ fs' = WriteFile(fs, t, "translated")
                    /\ job' = Wrote([job EXCEPT
                                 !.translated_transcript = PathV(t),
                                 !.translate = "ok"], t, "translated")
                    /\ jpc' = "extract"
                 \/ /\ job' = [job EXCEPT
                          !.translated_transcript = job.lean_transcript,
                          !.translate = "english"]
                    /\ jpc' = "extract"
                    /\ UNCHANGED fs
                 \/ /\ job' = Failed([job EXCEPT !.translate = "failed"])
                    /\ jpc' = "ended"
                    /\ UNCHANGED fs
    /\ UNCHANGED <<jmode, srvvars, turnvars, libvars>>

\* Step 4: extract_clinical_info writes the clinical file or raises; the
\* except clause of process_audio prints and raises again.
OsExtract ==
    /\ OsJob("extract")
    /\ IF job.skip_clinical
         THEN /\ job' = [job EXCEPT !.extract = "skipped"]
              /\ jpc' = "finish"
              /\ UNCHANGED <<fs, started>>
         ELSE /\ started' = Append(started, "Extract")
              /\ LET c == ClinicalFile(job.translated_transcript) IN
                 \/ /\ fs' = WriteFile(fs, c, "clinical")
                    /\ job' = Wrote([job EXCEPT !.clinical_result = TRUE,
                                                !.extract = "ok"],
                                    c, "clinical")
                    /\ jpc' = "finish"
                 \/ /\ job' = Failed([job EXCEPT !.extract = "failed"])
                    /\ jpc' = "ended"
                    /\ UNCHANGED fs
    /\ UNCHANGED <<jmode, srvvars, turnvars, libvars>>

\* return results: the keys that were set.
OsDone(j) ==
    [j EXCEPT !.status = "done",
              !.result = [success |-> TRUE,
                          clinical_extraction |-> j.clinical_result,
                          returned |->
                            {"raw_transcript", "lean_transcript"}
                            \cup (IF j.translate \in {"skipped"} THEN {}
                                  ELSE {"translated_transcript"})
                            \cup (IF j.audio_path.p.dir = "audio_cache"
                                  THEN {"downloaded_audio"} ELSE {})]]

OsFinish ==
    /\ OsJob("finish")
    /\ job' = OsDone(job)
    /\ jpc' = "ended"
    /\ UNCHANGED <<jmode, fs, started, srvvars, turnvars, libvars>>

\* ===================== whisperx_transcriber.py: the texts =================
\* A text is held as the sequence of its words, a word as the sequence of its
\* characters: what text.strip() and text.split() leave of it.
RECURSIVE JoinWords(_)
JoinWords(ws) ==
    IF ws = <<>> THEN <<>>
    ELSE IF Len(ws) = 1 THEN ws[1]
    ELSE ws[1] \o <<" ">> \o JoinWords(Tail(ws))

\* str.lower on the letters the texts use.
Lower(c) ==
    CASE c = "H" -> "h"
      [] c = "A" -> "a"
      [] c = "N" -> "n"
      [] c = "O" -> "o"
      [] OTHER -> c

LowerWord(w) == [i \in 1..Len(w) |-> Lower(w[i])]
LowerWords(ws) == [i \in 1..Len(ws) |-> LowerWord(ws[i])]

Range(q) == {q[i] : i \in 1..Len(q)}

\* pattern in text
Contains(text, pattern) ==
    \E i \in 0..(Len(text) - Len(pattern)) :
        \A k \in 1..Len(pattern) : text[i + k] = pattern[k]

\* word_counts[word], and max(word_counts.values())
CountOf(ws, w) == Cardinality({i \in 1..Len(ws) : ws[i] = w})
MaxCount(ws) ==
    CHOOSE n \in 0..Len(ws) :
        /\ \A w \in Range(ws) : CountOf(ws, w) <= n
        /\ ws # <<>> => \E w \in Range(ws) : CountOf(ws, w) = n

\* hallucination_patterns of _is_hallucination
HallucinationPatterns ==
    { <<"t","o","t","u","l","u","l","u","l","u","l","u">>,
      <<"l","a","l","a","l","a","l","a","l","a">>,
      <<"n","a","n","a","n","a","n","a","n","a">>,
      <<"h","a","h","a","h","a","h","a">>,
      <<"o","k","o","k","o","k","o","k","o","k">>,
      <<"y","e","s","y","e","s","y","e","s","y","e","s">>,
      <<"n","o","n","o","n","o","n","o","n","o">>,
      <<"b","t","w",","," ","t","o","t","u","l">> }

\* _is_hallucination(text): shorter than 3 characters; fewer than 3 distinct
\* characters in more than 10; a pattern; more than 3 words of which one is
\* more than half.
IsHallucination(text) ==
    LET text_lower == JoinWords(LowerWords(text))
        words == LowerWords(text) IN
    \/ Len(text_lower) < 3
    \/ Cardinality(Range(text_lower)) < 3 /\ Len(text_lower) > 10
    \/ \E pattern \in HallucinationPatterns : Contains(text_lower, pattern)
    \/ Len(words) > 3 /\ 2 * MaxCount(words) > Len(words)

\* min(a, b) and a // b of Python, on naturals
Min(a, b) == IF a < b THEN a ELSE b

\* _is_internally_repetitive(text): at least 4 words, and one word more than
\* 40% of them, or a phrase of 2..min(6, len // 2) - 1 words said twice in a
\* row, or fewer than 30% distinct words.
IsInternallyRepetitive(text) ==
    LET words == text
        n == Len(words) IN
    /\ n >= 4
    /\ \/ 5 * MaxCount(words) > 2 * n
       \/ \E phrase_len \in 2..(Min(6, n \div 2) - 1) :
            \E i \in 0..(n - phrase_len * 2) :
                SubSeq(words, i + 1, i + phrase_len)
                  = SubSeq(words, i + phrase_len + 1, i + phrase_len * 2)
       \/ 10 * Cardinality(Range(words)) < 3 * n

\* A segment of result['segments']: its text, its times in half seconds, the
\* speaker label of each of its words ("none": the word has no 'speaker'),
\* and whether avg_logprob < -1.5.
Segment(text, start, end, words, low) ==
    [text |-> text, start |-> start, end |-> end, words |-> words,
     low |-> low]

\* _filter_hallucinations: the segments kept, in order; seen_texts are the
\* texts of the segments kept so far.
RECURSIVE FilterFrom(_, _, _)
FilterFrom(ss, i, kept) ==
    IF i > Len(ss) THEN kept
    ELSE LET text == ss[i].text
             seen_texts == {kept[k].text : k \in 1..Len(kept)} IN
         IF \/ text = <<>>
            \/ text \in seen_texts
            \/ IsHallucination(text)
            \/ ss[i].low
            \/ IsInternallyRepetitive(text)
           THEN FilterFrom(ss, i + 1, kept)
           ELSE FilterFrom(ss, i + 1, Append(kept, ss[i]))

\* C30 mutant: seen_texts is not looked at, a text said again is kept.
C30_SeenNotChecked(ss) ==
    SelectSeq(ss, LAMBDA s : ~ \/ s.text = <<>>
                               \/ IsHallucination(s.text)
                               \/ s.low
                               \/ IsInternallyRepetitive(s.text))

FilterHallucinations(ss) == FilterFrom(ss, 1, <<>>)

\* -------------------------------------------------- extract_clean_format
\* Times are in half seconds: the 2 second gap and the 1 second minimum.
GapTicks == 4
MinDurationTicks == 2
\* The segments looked back over for a speaker.
SmoothingWindow == 3

DefaultSpeaker == "SPEAKER_00"
NoSpeaker == "none"

\* The most frequent speaker of the words that have one: max over the items
\* of speaker_counts, a dict in insertion order, so of the most frequent
\* speakers the one met first.
Labelled(words) == {i \in 1..Len(words) : words[i] # NoSpeaker}
FirstAt(words, l) == CHOOSE i \in Labelled(words) :
                        /\ words[i] = l
                        /\ \A k \in Labelled(words) : words[k] = l => i <= k
MostCommonSpeaker(words) ==
    IF Labelled(words) = {} THEN NoSpeaker
    ELSE LET best == {l \in Range(words) \ {NoSpeaker} :
                         CountOf(words, l) = MaxCount(
                             SelectSeq(words, LAMBDA x : x # NoSpeaker))}
         IN CHOOSE l \in best :
                \A m \in best : FirstAt(words, l) <= FirstAt(words, m)

\* for j in range(max(0, i-3), i): the first of the three segments before
\* segment i that has a speaker.
Smoothed(segment_speakers, i) ==
    LET from == IF i - SmoothingWindow > 1 THEN i - SmoothingWindow ELSE 1
        with == {j \in from..(i - 1) : segment_speakers[j] # NoSpeaker}
    IN IF with = {} THEN NoSpeaker
       ELSE segment_speakers[CHOOSE j \in with : \A k \in with : j <= k]

\* First pass: a speaker for each segment ("none" for a segment without text).
RECURSIVE SpeakersFrom(_, _, _)
SpeakersFrom(ss, i, segment_speakers) ==
    IF i > Len(ss) THEN segment_speakers
    ELSE LET own == MostCommonSpeaker(ss[i].words)
             near == Smoothed(segment_speakers, i)
             segment_speaker ==
                 IF ss[i].text = <<>> THEN NoSpeaker
                 ELSE IF own # NoSpeaker THEN own
                 ELSE IF near # NoSpeaker THEN near
                 ELSE DefaultSpeaker
         IN SpeakersFrom(ss, i + 1, Append(segment_speakers, segment_speaker))

SegmentSpeakers(ss) == SpeakersFrom(ss, 1, <<>>)

\* Second pass. The loop's variables; None is NoSpeaker for the speaker and
\* -1 for the times (a time of 0 is falsy, as None is).
NoTime == -1
Truthy(t) == t # NoTime /\ t # 0

NoTurn == [turns |-> <<>>, turn_id |-> 1, current_speaker |-> NoSpeaker,
           current_text_parts |-> <<>>, current_start_time |-> NoTime,
           current_end_time |-> NoTime]

\* The turn the loop holds is kept when it has a speaker, text, truthy times
\* and lasts the minimum.
Keeps(t) ==
    /\ t.current_speaker # NoSpeaker
    /\ t.current_text_parts # <<>>
    /\ Truthy(t.current_end_time)
    /\ Truthy(t.current_start_time)
    /\ t.current_end_time - t.current_start_time >= MinDurationTicks

Turn(t) ==
    [turn_id |-> t.turn_id, speaker |-> t.current_speaker,
     text |-> t.current_text_parts, start_time |-> t.current_start_time,
     end_time |-> t.current_end_time,
     duration |-> t.current_end_time - t.current_start_time]

\* C14 mutant: the counter moves on for a turn that is dropped too.
C14_CountsDropped(t) ==
    IF Keeps(t)
      THEN [t EXCEPT !.turns = Append(@, Turn(t)), !.turn_id = @ + 1]
      ELSE [t EXCEPT !.turn_id = @ + 1]

Flushed(t) ==
    IF Keeps(t)
      THEN [t EXCEPT !.turns = Append(@, Turn(t)), !.turn_id = @ + 1]
      ELSE t

RECURSIVE TurnsFrom(_, _, _, _)
TurnsFrom(ss, segment_speakers, i, t) ==
    IF i > Len(ss) THEN Flushed(t).turns
    ELSE IF ss[i].text = <<>> \/ segment_speakers[i] = NoSpeaker
      THEN TurnsFrom(ss, segment_speakers, i + 1, t)
    ELSE LET should_start_new_turn ==
                 \/ segment_speakers[i] # t.current_speaker
                 \/ /\ Truthy(t.current_end_time)
                    /\ ss[i].start - t.current_end_time > GapTicks
         IN IF should_start_new_turn
              THEN TurnsFrom(ss, segment_speakers, i + 1,
                     [Flushed(t) EXCEPT
                        !.current_speaker = segment_speakers[i],
                        !.current_text_parts = ss[i].text,
                        !.current_start_time = ss[i].start,
                        !.current_end_time = ss[i].end])
              ELSE TurnsFrom(ss, segment_speakers, i + 1,
                     [t EXCEPT
                        !.current_text_parts = @ \o ss[i].text,
                        !.current_end_time = ss[i].end])

\* extract_clean_format(result)["turns"]
ExtractCleanFormat(ss) == TurnsFrom(ss, SegmentSpeakers(ss), 1, NoTurn)

\* ------------------------------------------------ transcribe_and_diarize
\* Segments of one recording.
MaxSegs == 2

T_Empty == <<>>
T_Short == << <<"o","k">> >>
T_Feel == << <<"i">>, <<"f","e","e","l">>, <<"s","i","c","k">> >>
T_NoPain == << <<"N","o">>, <<"p","a","i","n">> >>
T_Repeat == << <<"n","o">>, <<"n","o">>, <<"n","o">>, <<"p","a","i","n">> >>
T_Laugh == << <<"H","a","h","a","h","a","h","a">> >>
T_Phrase == << <<"i">>, <<"f","e","e","l">>, <<"i">>, <<"f","e","e","l">>,
               <<"n","o">>, <<"p","a","i","n">> >>
T_Again == << <<"i">>, <<"f","e","e","l">>, <<"i">>, <<"f","e","e","l">>,
              <<"s","i","c","k">> >>

\* What the transcription can say in a segment, and how sure it is.
Said ==
    {[text |-> t, low |-> FALSE] :
        t \in {T_Empty, T_Short, T_Feel, T_NoPain, T_Repeat, T_Laugh,
               T_Phrase, T_Again}}
    \cup {[text |-> T_Feel, low |-> TRUE]}

\* When a segment starts after the one before (or after 0), and how long it
\* lasts, in half seconds.
Timings == {[gap |-> 0, dur |-> 1], [gap |-> 0, dur |-> 2],
            [gap |-> 5, dur |-> 2]}

SegChoices == [said : Said, timing : Timings]

\* The segments after transcription and alignment: no word has a speaker.
Unlabelled(text) == [i \in 1..Len(text) |-> NoSpeaker]

\* One more segment of the transcription, that starts timing.gap after the
\* end of the one before (the first: after 0) and lasts timing.dur.
SaidSegment(before, ch) ==
    LET from == (IF before = <<>> THEN 0 ELSE before[Len(before)].end)
                  + ch.timing.gap
    IN Segment(ch.said.text, from, from + ch.timing.dur,
               Unlabelled(ch.said.text), ch.said.low)

\* model.transcribe and whisperx.align give the next segment.
Transcribed ==
    /\ tpc = "start"
    /\ Len(segs) < MaxSegs
    /\ \E ch \in SegChoices : segs' = Append(segs, SaidSegment(segs, ch))
    /\ UNCHANGED <<tpc, diar, lean, srvvars, jobvars, libvars>>

\* What the diarization gives the words of a segment: no speaker, one
\* speaker, or one speaker for the first word and another for the rest.
Labellings == {"none", "one", "mixed"}
LabelWords(words, pat) ==
    CASE pat = "none" -> words
      [] pat = "one" -> [i \in 1..Len(words) |-> "SPEAKER_01"]
      [] pat = "mixed" -> [i \in 1..Len(words) |->
                             IF i = 1 THEN "SPEAKER_01" ELSE "SPEAKER_00"]

Labelled3(ss, lab) ==
    [i \in 1..Len(ss) |-> [ss[i] EXCEPT !.words = LabelWords(@, lab[i])]]

\* C10 mutant: the words get their speakers however the diarization ended.
C10_LabelsAnyway(ss, how, lab) == Labelled3(ss, lab)

\* Step 3 of transcribe_and_diarize: result = assign_word_speakers(...) takes
\* effect when a token is given and nothing in the try block raised; else the
\* result of the alignment is kept.
AssignWordSpeakers(ss, how, lab) ==
    IF how = "ok" THEN Labelled3(ss, lab) ELSE ss

\* The labellings a diarization of n segments can come to. One that failed
\* or was not run has none to give: the labelling is the one it did not
\* deliver.
Diarizations(how, n) ==
    IF how = "ok" THEN [1..n -> Labellings] ELSE {[i \in 1..n |-> "one"]}

\* transcribe_and_diarize raised: no ffmpeg, the model or the audio did not
\* load, the transcription failed.
TranscribeRaises ==
    /\ tpc = "start"
    /\ tpc' = "raised"
    /\ UNCHANGED <<segs, diar, lean, srvvars, jobvars, libvars>>

\* transcribe_and_diarize returned: the diarization ended some way, and the
\* hallucination filter ran over the result.
TranscribeAndDiarize ==
    /\ tpc = "start"
    /\ segs # <<>>
    /\ \E how \in {"ok", "failed", "notoken"} :
       \E lab \in Diarizations(how, Len(segs)) :
         /\ diar' = how
         /\ segs' = FilterHallucinations(AssignWordSpeakers(segs, how, lab))
    /\ tpc' = "returned"
    /\ UNCHANGED <<lean, srvvars, jobvars, libvars>>

\* save_results: lean_data = self.extract_clean_format(result)
SaveLean ==
    /\ tpc = "returned"
    /\ lean' = ExtractCleanFormat(segs)
    /\ tpc' = "cleaned"
    /\ UNCHANGED <<segs, diar, srvvars, jobvars, libvars>>

\* ------------------------------- extract_clean_format on diarized segments
\* Segments as the diarization and the filter leave them: each with its own
\* text (the filter keeps no text twice), every word of a segment with the
\* same speaker or with none, in the order of their start times.
MaxLeanSegs == 3

T_Cough == << <<"i">>, <<"c","o","u","g","h">> >>
T_Dizzy == << <<"i">>, <<"a","m">>, <<"d","i","z","z","y">> >>
LeanTexts == <<T_Feel, T_NoPain, T_Cough, T_Dizzy>>

LeanSpeakers == {NoSpeaker, "SPEAKER_00", "SPEAKER_01"}
LeanTimings == [gap : {0, 4, 5}, dur : {1, 2}]
LeanChoices == [speaker : LeanSpeakers, timing : LeanTimings]

\* whisperx hands over one more segment, that starts timing.gap after the end
\* of the one before (the first: after 0) and lasts timing.dur.
LeanSegment(before, ch) ==
    LET i == Len(before) + 1
        from == (IF before = <<>> THEN 0 ELSE before[Len(before)].end)
                  + ch.timing.gap
    IN Segment(LeanTexts[i], from, from + ch.timing.dur,
               [k \in 1..Len(LeanTexts[i]) |-> ch.speaker], FALSE)

NextSegment ==
    /\ tpc = "diarizing"
    /\ Len(segs) < MaxLeanSegs
    /\ \E ch \in LeanChoices : segs' = Append(segs, LeanSegment(segs, ch))
    /\ UNCHANGED <<tpc, diar, lean, srvvars, jobvars, libvars>>

\* transcribe_and_diarize returns the segments: the filter has nothing to
\* take from them.
Diarized ==
    /\ tpc = "diarizing"
    /\ segs # <<>>
    /\ FilterHallucinations(segs) = segs
    /\ tpc' = "returned"
    /\ UNCHANGED <<segs, diar, lean, srvvars, jobvars, libvars>>

\* ============================== the dispatcher ============================
\* A line of stdin, by what process_command makes of it. "run_noaudio" is a
\* run request with neither audio_path nor audio_s3_path.
Line(kind, st, sc, a) ==
    [kind |-> kind, skip_translation |-> st, skip_clinical |-> sc, audio |-> a]

OtherKinds == {"empty", "health", "unknown", "notjson", "nonobject",
               "undecodable", "run_noaudio"}
Lines ==
    {Line(k, FALSE, TRUE, MissingAudio) : k \in OtherKinds}
    \cup {Line("run", st, sc, a) : st \in BOOLEAN, sc \in BOOLEAN,
                                   a \in AudioInputs}

NoLine == [kind |-> "empty", skip_translation |-> FALSE,
           skip_clinical |-> TRUE, audio |-> MissingAudio, n |-> 0,
           readAfterReady |-> FALSE, sentDuring |-> 0]

\* The line l as it waits in the pipe; sentDuring records the number of the
\* run request the dispatcher was executing when the client wrote the line
\* (0 when it was executing none).
Sent(l, d) ==
    [kind |-> l.kind, skip_translation |-> l.skip_translation,
     skip_clinical |-> l.skip_clinical, audio |-> l.audio, sentDuring |-> d]

\* The client writes one more line to the server's stdin, at any moment: the
\* pipe buffers it until the for loop of main comes back for it.
ClientSends(max) ==
    /\ Alive
    /\ nlines + Len(stdin) < max
    /\ \E l \in Lines :
         stdin' = Append(stdin, Sent(l, IF pc = "run" THEN cur.n ELSE 0))
    /\ UNCHANGED <<pc, cur, nlines, nread, msg, main_saved, bgpc,
                   loaded_models, bg_saved, models, models_loading_errors,
                   models_ready_event, sys_stdout, stdout, stderr>>
    /\ UNCHANGED <<jobvars, turnvars, libvars>>

Send == ClientSends(MaxLines)

\* The request record of line l, the n-th non-empty line, as kind k.
Request(l, k, n) ==
    [kind |-> k, skip_translation |-> l.skip_translation,
     skip_clinical |-> l.skip_clinical, audio |-> l.audio, n |-> n,
     readAfterReady |-> models_ready_event, sentDuring |-> l.sentDuring]

\* for raw_line in sys.stdin: an empty line is skipped, any other goes to
\* process_command. Bytes that are not valid UTF-8 either make the iteration
\* raise UnicodeDecodeError (a strict stdin: the except Exception of main logs
\* and calls sys.exit(1)), or arrive as text that is not JSON (a stdin opened
\* with surrogateescape).
ReadLine ==
    /\ pc = "read"
    /\ stdin # <<>>
    /\ stdin' = Tail(stdin)
    /\ nlines' = nlines + 1
    /\ LET l == Head(stdin) IN
         CASE l.kind = "empty" -> UNCHANGED <<pc, cur, nread>>
           [] l.kind = "undecodable" ->
                /\ nread' = nread + 1
                /\ \/ /\ cur' = Request(l, "undecodable", nread + 1)
                      /\ pc' = "crashed"
                   \/ /\ cur' = Request(l, "notjson", nread + 1)
                      /\ pc' = "process"
           [] OTHER ->
                /\ nread' = nread + 1
                /\ cur' = Request(l, l.kind, nread + 1)
                /\ pc' = "process"
    /\ UNCHANGED <<msg, main_saved, bgpc, loaded_models, bg_saved, models,
                   models_loading_errors, models_ready_event, sys_stdout,
                   stdout, stderr>>
    /\ UNCHANGED <<jobvars, turnvars, libvars>>

\* End of input: the client closed the pipe and every line was read; the loop
\* ends, main returns and the process exits, taking the daemon loader thread
\* with it.
Eof ==
    /\ pc = "read"
    /\ stdin = <<>>
    /\ pc' = "exited"
    /\ UNCHANGED <<cur, stdin, nlines, nread, msg, main_saved, bgpc,
                   loaded_models, bg_saved, models, models_loading_errors,
                   models_ready_event, sys_stdout, stdout, stderr>>
    /\ UNCHANGED <<jobvars, turnvars, libvars>>

\* KeyboardInterrupt is raised in the main thread wherever it is. It is not
\* an Exception: the except Exception clauses of run_pipeline and of
\* process_command let it pass, the except KeyboardInterrupt of main logs
\* "Interrupted, exiting" and main returns.
Interrupt ==
    /\ pc \in {"read", "process", "run", "send_head", "send_tail"}
    /\ pc' = "interrupted"
    /\ UNCHANGED <<cur, stdin, nlines, nread, msg, main_saved, bgpc,
                   loaded_models, bg_saved, models, models_loading_errors,
                   models_ready_event, sys_stdout, stdout, stderr>>
    /\ UNCHANGED <<jobvars, turnvars, libvars>>

\* process_command up to its send_response call, for every line but a run
\* request with an audio reference.
Reply(l) ==
    CASE l.kind \in {"notjson", "nonobject"} ->
           \* json.loads or req.get raised: the except clause answers
           Response("main", l.n, "error", "error", FALSE, TRUE,
                    l.readAfterReady)
      [] l.kind = "unknown" ->
           Response("main", l.n, "error", "error", FALSE, FALSE,
                    l.readAfterReady)
      [] l.kind = "health" ->
           Response("main", l.n, "health", "ok", models_ready_event, FALSE,
                    l.readAfterReady)
      [] l.kind = "run_noaudio" ->
           Response("main", l.n, "run", "failed", FALSE, FALSE,
                    l.readAfterReady)

ProcessCommand ==
    /\ pc = "process"
    /\ cur.kind # "run"
    /\ msg' = Reply(cur)
    /\ pc' = "send_head"
    /\ UNCHANGED <<cur, stdin, nlines, nread, main_saved, bgpc, loaded_models,
                   bg_saved, models, models_loading_errors,
                   models_ready_event, sys_stdout, stdout, stderr>>
    /\ UNCHANGED <<jobvars, turnvars, libvars>>

\* cmd == "run": run_pipeline(models, audio_input, job_id, ...) is called on
\* the dispatcher thread, with the registry as it is.
ProcessRun ==
    /\ pc = "process"
    /\ cur.kind = "run"
    /\ pc' = "run"
    /\ jmode' = "server"
    /\ jpc' = "resolve"
    /\ job' = NewJob(cur.skip_translation, cur.skip_clinical, cur.audio)
    /\ started' = <<>>
    /\ UNCHANGED <<cur, stdin, nlines, nread, msg, main_saved, bgpc,
                   loaded_models, bg_saved, models, models_loading_errors,
                   models_ready_event, sys_stdout, stdout, stderr>>
    /\ UNCHANGED <<fs, turnvars, libvars>>

\* run_pipeline returned: "done" with the result, or "failed" with the error
\* and the trace.
RunReply(l, j) ==
    IF j.result.success
      THEN Response("main", l.n, "run", "done", FALSE, FALSE,
                    l.readAfterReady)
      ELSE Response("main", l.n, "run", "failed", FALSE, TRUE,
                    l.readAfterReady)

RunReturn ==
    /\ pc = "run"
    /\ jmode = "server"
    /\ jpc = "ended"
    /\ msg' = RunReply(cur, job)
    /\ pc' = "send_head"
    /\ jpc' = "idle"
    /\ UNCHANGED <<cur, stdin, nlines, nread, main_saved, bgpc, loaded_models,
                   bg_saved, models, models_loading_errors,
                   models_ready_event, sys_stdout, stdout, stderr>>
    /\ UNCHANGED <<jmode, job, fs, started, turnvars, libvars>>

MainSendHead ==
    /\ pc = "send_head"
    /\ WriteTo(sys_stdout, HeadChunk(msg))
    /\ pc' = "send_tail"
    /\ UNCHANGED <<cur, stdin, nlines, nread, msg, main_saved, bgpc,
                   loaded_models, bg_saved, models, models_loading_errors,
                   models_ready_event, sys_stdout>>
    /\ UNCHANGED <<jobvars, turnvars, libvars>>

MainSendTail ==
    /\ pc = "send_tail"
    /\ WriteTo(StreamOf(msg), TailChunk(msg))
    /\ pc' = "read"
    /\ msg' = NoMsg
    /\ UNCHANGED <<cur, stdin, nlines, nread, main_saved, bgpc, loaded_models,
                   bg_saved, models, models_loading_errors,
                   models_ready_event, sys_stdout>>
    /\ UNCHANGED <<jobvars, turnvars, libvars>>

\* ====================== sealion/translator.py: translate_json =============
\* A lean transcript: languages_detected and the turns, of which the
\* translator reads and writes the text. Texts are "" (no text), or a
\* sentence in Malay; the API answers with English sentences, or with nothing.
MaxTurns == 2
MaxMarkers == 2

Foreign == {"apa", "sakit"}
Replies == {"", "what", "pain"}
Languages == {<<"ms">>, <<"en", "ms">>, <<"en">>, <<>>}

TurnOf(i, speaker, text) == [turn_id |-> i, speaker |-> speaker, text |-> text]
TurnChoices == [speaker : {"SPEAKER_00", "SPEAKER_01"},
                text : Foreign \cup {""}]
Transcripts ==
    UNION {{[languages_detected |-> l,
             turns |-> [i \in 1..n |->
                          TurnOf(i, ch[i].speaker, ch[i].text)]] :
               l \in Languages, ch \in [1..n -> TurnChoices]} :
             n \in 0..MaxTurns}

\* should_skip_translation: languages_detected == ['en']
ShouldSkipTranslation(d) == d.languages_detected = <<"en">>

\* json.loads(json.dumps(json_data)): a new object with the same JSON value.
JsonCopy(d) ==
    [languages_detected |-> d.languages_detected,
     turns |-> [i \in 1..Len(d.turns) |->
                  TurnOf(d.turns[i].turn_id, d.turns[i].speaker,
                         d.turns[i].text)]]

\* C17 mutant: translate_json works on the caller's object.
C17_NoCopy == TRUE

\* Whether translated_data is the object the caller passed.
SharesInput == FALSE

\* turn_mapping: the positions (from 1) of the turns that have text.
TurnMapping(turns) == {i \in 1..Len(turns) : turns[i].text # ""}

\* A bulk response: the [TURN_n] markers found by the pattern, in order, each
\* with the stripped text that follows it. The model answers what it likes:
\* markers left out, repeated, numbered 0 or past the last turn.
Markers(total) == [n : 0..(total + 1), content : Replies]
BulkResponses(total) ==
    UNION {[1..k -> Markers(total)] : k \in 0..MaxMarkers}

\* _parse_bulk_response: result = [''] * total_turns, then result[n - 1] =
\* content for each marker with 0 <= n - 1 < total_turns, in order (a later
\* marker of the same number wins).
RECURSIVE ParseFrom(_, _, _)
ParseFrom(response, k, result) ==
    IF k > Len(response) THEN result
    ELSE LET turn_index == response[k].n IN
         ParseFrom(response, k + 1,
                   IF 1 <= turn_index /\ turn_index <= Len(result)
                     THEN [result EXCEPT ![turn_index] = response[k].content]
                     ELSE result)

ParseBulkResponse(response, total_turns) ==
    ParseFrom(response, 1, [i \in 1..total_turns |-> ""])

NoReply == [kind |-> "none", sent |-> 0]
ApiCall(kind, turn) == [kind |-> kind, turn |-> turn]

\* Times are in tenths of a second. self.rate_limit_delay = 6.5, and the
\* time.sleep(60) of translate_text when the error says "rate_limit".
RateLimitDelay == 65
RateLimitWait == 600
\* A request can raise as soon as it is sent (the connection is refused): the
\* time that is sure to pass after a request is the time the translator
\* sleeps.

\* translate_json up to the call of translate_bulk_conversation: an English
\* transcript is returned as it is, any other is copied.
TranslateJsonBegin ==
    /\ xpc = "start"
    /\ IF ShouldSkipTranslation(json_data)
         THEN /\ translated_data' = json_data
              /\ xpc' = "returned"
         ELSE /\ translated_data' = JsonCopy(json_data)
              /\ xpc' = "bulk"
    /\ UNCHANGED <<given, json_data, translated_texts, api_calls, bulk_reply,
                   gaps>>
    /\ UNCHANGED <<srvvars, jobvars, turnvars, dlvars, awsvars, cxvars>>

\* translate_bulk_conversation: no request when no turn has text; else one
\* request, whose response is parsed and returned as parsed, or that raises
\* (the except clause goes on to _translate_turns_individually).
TranslateBulkConversation ==
    /\ xpc = "bulk"
    /\ LET turns == translated_data.turns
           sent == Cardinality(TurnMapping(turns)) IN
       IF sent = 0
         THEN /\ translated_texts' = [i \in 1..Len(turns) |-> turns[i].text]
              /\ bulk_reply' = [kind |-> "notext", sent |-> 0]
              /\ xpc' = "apply"
              /\ UNCHANGED <<api_calls, gaps>>
         ELSE /\ api_calls' = Append(api_calls, ApiCall("bulk", 0))
              /\ gaps' = Append(gaps, 0)
              /\ \/ /\ translated_texts' = <<>>
                    /\ bulk_reply' = [kind |-> "error", sent |-> sent]
                    /\ xpc' = "individual"
                 \/ \E response \in BulkResponses(Len(turns)) :
                      /\ translated_texts' =
                           ParseBulkResponse(response, Len(turns))
                      /\ bulk_reply' = [kind |-> "parsed", sent |-> sent]
                      /\ xpc' = "apply"
    /\ UNCHANGED <<given, json_data, translated_data>>
    /\ UNCHANGED <<srvvars, jobvars, turnvars, dlvars, awsvars, cxvars>>

\* _translate_turns_individually, one turn of its loop: a turn without text
\* keeps it; else translate_text sends one request, and its answer, or the
\* original text when it raised (after the sleep of translate_text, when the
\* error is a rate limit), is appended; then, but for the last turn, the
\* sleep of rate_limit_delay.
TranslateTurn ==
    /\ xpc = "individual"
    /\ LET turns == translated_data.turns
           i == Len(translated_texts) + 1
           next == IF i = Len(turns) THEN "apply" ELSE "individual"
           delay == IF i < Len(turns) THEN RateLimitDelay ELSE 0 IN
       /\ xpc' = next
       /\ IF turns[i].text = ""
            THEN /\ translated_texts' = Append(translated_texts, "")
                 /\ UNCHANGED <<api_calls, gaps>>
            ELSE /\ api_calls' = Append(api_calls, ApiCall("turn", i))
                 /\ \/ /\ \E r \in Replies :
                              translated_texts' = Append(translated_texts, r)
                       /\ gaps' = Append(gaps, delay)
                    \/ /\ translated_texts' =
                              Append(translated_texts, turns[i].text)
                       /\ \E wait \in {0, RateLimitWait} :
                            gaps' = Append(gaps, wait + delay)
    /\ UNCHANGED <<given, json_data, translated_data, bulk_reply>>
    /\ UNCHANGED <<srvvars, jobvars, turnvars, dlvars, awsvars, cxvars>>

\* for turn, translated_text in zip(turns, translated_texts): a text that is
\* not empty replaces the turn's; languages_detected becomes ['en'].
Applied(d, texts) ==
    [languages_detected |-> <<"en">>,
     turns |-> [i \in 1..Len(d.turns) |->
                  IF i <= Len(texts) /\ texts[i] # ""
                    THEN [d.turns[i] EXCEPT !.text = texts[i]]
                    ELSE d.turns[i]]]

TranslateJsonEnd ==
    /\ xpc = "apply"
    /\ translated_data' = Applied(translated_data, translated_texts)
    /\ json_data' = IF SharesInput THEN translated_data' ELSE json_data
    /\ xpc' = "returned"
    /\ UNCHANGED <<given, translated_texts, api_calls, bulk_reply, gaps>>
    /\ UNCHANGED <<srvvars, jobvars, turnvars, dlvars, awsvars, cxvars>>

\* ================= aws/s3_downloader.py: download_audio_file ==============
\* One S3AudioDownloader built with a cache directory, as load_models and the
\* pipelines build it. Its calls, each with the reference, local_dir ("none":
\* not given) and use_cache.
MaxResolves == 2

\* A reference s3://bucket/prefix/base. parse_s3_uri gives its bucket and
\* its key, the path without the leading slash; os.path.basename(key) is the
\* part of the key after its last slash, base.
S3Ref(bucket, prefix, base) ==
    [scheme |-> "s3", bucket |-> bucket, prefix |-> prefix, base |-> base]
Key(ref) == ref.prefix \o ref.base

\* What the store holds under a bucket and a key: each object its own bytes.
ObjectContent(ref) == ref.bucket \o "/" \o Key(ref)

Refs == {S3Ref("x", "", "a"), S3Ref("x", "", "b"), S3Ref("x", "old/", "a")}
LocalDirs == {"none", "out"}

S3Call(op, ref) == [op |-> op, ref |-> ref]
NoPath == File("none", "none", 0, 0)

\* How head_object can fail: the Error.Code of a ClientError ("other": any
\* other code, or an exception that is no ClientError).
HeadFailures == {"404", "403", "NoSuchBucket", "other"}

\* verify_s3_file prints a message for each code and returns False for all
\* of them.
VerifyReturns(code) == code = "200"

\* What download_audio_file raises to its caller.
NoError == [type |-> "none", ref |-> NoPath]
\* raise FileNotFoundError(f"S3 file not found or not accessible: {s3_uri}")
\* when verify_s3_file returned False for the head request that ended `code`.
RaisedOnHead(code, ref) == [type |-> "FileNotFoundError", ref |-> ref]
\* raise RuntimeError(error_msg): the download failed.
RaisedOnDownload(ref) == [type |-> "RuntimeError", ref |-> ref]

\* C19 mutant: the cache is never found to hold the file.
C19_NeverCached(ref) == NoPath

\* get_cached_path: cache_dir / basename(key) when that file exists.
GetCachedPath(ref) ==
    IF CacheFile(ref) \in DOMAIN fs THEN CacheFile(ref) ELSE NoPath

\* Where the file is saved: local_dir / filename when local_dir is given,
\* else cache_dir / filename.
LocalPath(ref, local_dir) ==
    IF local_dir # "none" THEN File(local_dir, ref.base, 0, 0)
                          ELSE CacheFile(ref)

Call(ref, local_dir, use_cache, path, before) ==
    [ref |-> ref, local_dir |-> local_dir, use_cache |-> use_cache,
     path |-> path, calls_before |-> before]

\* download_audio_file(s3_path, local_dir, use_cache): the cached path when
\* the cache is used and holds the file; else a head request (verify_s3_file:
\* False raises FileNotFoundError), then the download (an error raises
\* RuntimeError; boto3 leaves no file behind), and the path of the file.
\* A call that raised is noted with path NoPath.
DownloadAudioFile ==
    /\ Len(resolved) < MaxResolves
    /\ \E ref \in Refs, local_dir \in LocalDirs, use_cache \in BOOLEAN :
         LET cached_path == IF use_cache THEN GetCachedPath(ref) ELSE NoPath
             local_path == LocalPath(ref, local_dir)
             head == S3Call("head", ref)
             download == S3Call("download", ref)
             ended(path) == Append(resolved,
                              Call(ref, local_dir, use_cache, path,
                                   Len(s3_calls)))
         IN IF cached_path # NoPath
              THEN /\ resolved' = ended(cached_path)
                   /\ head_code' = "none"
                   /\ raised' = NoError
                   /\ UNCHANGED <<s3_calls, fs>>
              ELSE \/ \E code \in HeadFailures :
                        /\ ~VerifyReturns(code)
                        /\ s3_calls' = Append(s3_calls, head)
                        /\ resolved' = ended(NoPath)
                        /\ head_code' = code
                        /\ raised' = RaisedOnHead(code, ref)
                        /\ UNCHANGED fs
                   \/ /\ VerifyReturns("200")
                      /\ s3_calls' = s3_calls \o <<head, download>>
                      /\ resolved' = ended(NoPath)
                      /\ head_code' = "200"
                      /\ raised' = RaisedOnDownload(ref)
                      /\ UNCHANGED fs
                   \/ /\ VerifyReturns("200")
                      /\ s3_calls' = s3_calls \o <<head, download>>
                      /\ fs' = WriteFile(fs, local_path, ObjectContent(ref))
                      /\ resolved' = ended(local_path)
                      /\ head_code' = "200"
                      /\ raised' = NoError
    /\ UNCHANGED <<jmode, jpc, job, started>>
    /\ UNCHANGED <<srvvars, turnvars, xlvars, awsvars, cxvars>>

\* ==================== aws/transcriber.py: verify_s3_file ==================
\* One AWSTranscriber: self.region is the configured region, self.s3 the
\* client made for it by __init__.
MaxVerifies == 3

ConfiguredRegion == "ap-southeast-2"
Regions == {"ap-southeast-2", "us-east-1", "eu-west-1"}
NoRegion == "none"

S3Head(object_region, client, found) ==
    [object_region |-> object_region, client |-> client, found |-> found]

\* verify_s3_file(bucket, key) for an object of a bucket in region br.
\* get_bucket_region returns the bucket's region, or None on a ClientError,
\* or raises (verify_s3_file then returns False without a head request).
\* On a mismatch a client is made for the bucket's region, the head request
\* goes through it and, when that found the object, self.s3 = that client.
\* Else the head request goes through self.s3.
VerifyS3File ==
    /\ Len(heads) < MaxVerifies
    /\ \E br \in Regions, probe \in {"ok", "none", "raised"},
          found \in BOOLEAN :
         LET bucket_region == IF probe = "ok" THEN br ELSE NoRegion IN
         IF probe = "raised"
           THEN /\ heads' = Append(heads, S3Head(br, NoRegion, FALSE))
                /\ UNCHANGED s3
           ELSE IF bucket_region # NoRegion /\ bucket_region # ConfiguredRegion
             THEN /\ heads' = Append(heads, S3Head(br, bucket_region, found))
                  /\ s3' = IF found THEN bucket_region ELSE s3
             ELSE /\ heads' = Append(heads, S3Head(br, s3, found))
                  /\ UNCHANGED s3
    /\ UNCHANGED <<srvvars, jobvars, turnvars, xlvars, dlvars, cxvars>>

\* ============ clinical_extractor_llm/extractor.py: extract_clinical_info ===
\* A record is a JSON object: its keys, and under "symptoms_present" the
\* symptoms found. `method` and `attempt` note which strategy and which
\* generation request produced it.
max_attempts == 3

\* The keys of the JSON object the prompt asks for.
ClinicalRecordFields ==
    {"summary", "chief_complaint", "symptoms_present", "symptoms_negated",
     "onset_or_duration", "allergy_substance", "meds_current",
     "conditions_past", "primary_diagnosis", "rx_drug", "rx_dose",
     "follow_up", "red_flags"}

Record(method, attempt, keys, symptoms) ==
    [method |-> method, attempt |-> attempt, keys |-> keys,
     symptoms_present |-> symptoms]

NoRecord == Record("none", 0, {}, {})

\* _create_empty_extraction
CreateEmptyExtraction == Record("empty", 0, ClinicalRecordFields, {})

\* _rule_based_extraction(text): the keys of its result dict, and the
\* symptoms of its list that the lower-cased text contains.
RuleSymptoms == {"fever", "cough", "headache", "nausea", "vomiting",
                 "diarrhea", "fatigue"}
RuleBasedFields ==
    {"chief_complaint", "symptoms_present", "symptoms_absent",
     "medical_history", "medications", "allergies", "physical_examination",
     "assessment_and_plan", "follow_up", "summary"}
RuleBasedExtraction(text) ==
    Record("rule", 0, RuleBasedFields, text \cap RuleSymptoms)

\* What a transcript can say (as the set of its words), and how a generation
\* request can end: the generator raises, returns an empty list, or returns
\* a text. The text is a JSON object (bare or between markdown fences, with
\* the keys asked for or with others), a JSON value that is no object, or no
\* JSON at all.
Texts == {{}, {"fever", "cough", "since", "monday"}, {"no", "pain"}}
OutputKinds == {"exception", "empty", "unparseable", "nonobject",
                "object", "fenced_object", "other_object"}

\* C22 mutant: whatever json.loads accepts is returned.
C22_AnyJsonReturned(out) ==
    out \in {"object", "fenced_object", "other_object", "nonobject"}

\* json.loads(clean_text) succeeds and clinical_data.keys() does not raise:
\* the fences are removed first; a JSON value without keys() raises
\* AttributeError, which the except Exception of the attempt catches.
Returned(out) == out \in {"object", "fenced_object", "other_object"}

KeysOf(out) ==
    IF out = "other_object" THEN {"answer"} ELSE ClinicalRecordFields

\* extract_clinical_info up to the loop: an empty text returns the empty
\* structure, no generator goes to the rule strategy.
ExtractBegin ==
    /\ cpc = "start"
    /\ IF transcript_text = {}
         THEN /\ clinical' = CreateEmptyExtraction
              /\ cpc' = "returned"
         ELSE IF generator
           THEN /\ cpc' = "attempt"
                /\ UNCHANGED clinical
           ELSE /\ clinical' = RuleBasedExtraction(transcript_text)
                /\ cpc' = "returned"
    /\ UNCHANGED <<transcript_text, generator, outputs>>
    /\ UNCHANGED <<srvvars, jobvars, turnvars, xlvars, dlvars, awsvars>>

\* for attempt in range(max_attempts): one generation request. Its record is
\* returned, or the loop goes on; after the last attempt the rule strategy.
Attempt ==
    /\ cpc = "attempt"
    /\ IF Len(outputs) < max_attempts
         THEN \E out \in OutputKinds :
                /\ outputs' = Append(outputs, out)
                /\ IF Returned(out)
                     THEN /\ clinical' = Record("llm", Len(outputs) + 1,
                                                KeysOf(out), {})
                          /\ cpc' = "returned"
                     ELSE UNCHANGED <<cpc, clinical>>
         ELSE /\ clinical' = RuleBasedExtraction(transcript_text)
              /\ cpc' = "returned"
              /\ UNCHANGED outputs
    /\ UNCHANGED <<transcript_text, generator>>
    /\ UNCHANGED <<srvvars, jobvars, turnvars, xlvars, dlvars, awsvars>>

\* ------------------------------------------------- the libraries at rest
XlIdle ==
    /\ xpc = "idle"
    /\ given = [languages_detected |-> <<>>, turns |-> <<>>]
    /\ json_data = given
    /\ translated_data = given
    /\ translated_texts = <<>>
    /\ api_calls = <<>>
    /\ bulk_reply = NoReply
    /\ gaps = <<>>

DlIdle ==
    /\ s3_calls = <<>>
    /\ resolved = <<>>
    /\ head_code = "none"
    /\ raised = NoError

AwsIdle ==
    /\ s3 = ConfiguredRegion
    /\ heads = <<>>

CxIdle ==
    /\ cpc = "idle"
    /\ transcript_text = {}
    /\ generator = FALSE
    /\ outputs = <<>>
    /\ clinical = NoRecord

LibIdle == XlIdle /\ DlIdle /\ AwsIdle /\ CxIdle

\* ============================ specifications ==============================
SrvInit ==
    /\ pc = "read"
    /\ cur = NoLine
    /\ stdin = <<>>
    /\ nlines = 0
    /\ nread = 0
    /\ msg = NoMsg
    /\ main_saved = "stdout"
    /\ bgpc = "load_whisperx"
    /\ loaded_models = NoneLoaded
    /\ bg_saved = "stdout"
    /\ models = NoneLoaded
    /\ models_loading_errors = <<>>
    /\ models_ready_event = FALSE
    /\ sys_stdout = "stdout"
    /\ stdout = <<>>
    /\ stderr = <<>>

JobIdle ==
    /\ jmode = "none"
    /\ jpc = "idle"
    /\ job = IdleJob
    /\ fs = InitFs
    /\ started = <<>>

TurnsIdle ==
    /\ tpc = "idle"
    /\ segs = <<>>
    /\ diar = "none"
    /\ lean = <<>>

\* The server: main() has started the loader thread and reads stdin.
Init == SrvInit /\ JobIdle /\ TurnsIdle /\ LibIdle

Loader ==
    \/ \E w \in Workers : LoadWorker(w)
    \/ \E w \in Workers : LoadPrintEnd(w)
    \/ UpdateModels
    \/ WarmupClinicalEnter
    \/ WarmupClinicalExit
    \/ WarmupTranslatorEnter
    \/ WarmupTranslatorExit
    \/ SetReady
    \/ BgSendHead
    \/ BgSendTail

Dispatcher ==
    \/ Send
    \/ ReadLine
    \/ Eof
    \/ Interrupt
    \/ ProcessCommand
    \/ ProcessRun
    \/ RunReturn
    \/ MainSendHead
    \/ MainSendTail

SrvStages ==
    \/ SrvResolve
    \/ SrvTranscribe
    \/ SrvTranslateBegin
    \/ SrvTranslateEnd
    \/ SrvExtractBegin
    \/ SrvExtractEnd
    \/ SrvFinish

Next == Loader \/ Dispatcher \/ SrvStages

Spec == Init /\ [][Next]_vars

\* One job, in run_pipeline against any registry the loader can leave, or in
\* process_audio of a constructed AudioProcessingPipeline.
\* The disk may already hold the recording in the download cache.
CachedFs == WriteFile(InitFs, CacheFile(S3Audio), "audio")

JobInit ==
    /\ pc = "run"
    /\ cur = NoLine
    /\ stdin = <<>>
    /\ nlines = 0
    /\ nread = 0
    /\ msg = NoMsg
    /\ main_saved = "stdout"
    /\ bgpc = "done"
    /\ bg_saved = "stdout"
    /\ models_loading_errors = <<>>
    /\ models_ready_event = TRUE
    /\ sys_stdout = "stdout"
    /\ stdout = <<>>
    /\ stderr = <<>>
    /\ TurnsIdle
    /\ LibIdle
    /\ fs \in {InitFs, CachedFs}
    /\ started = <<>>
    /\ jpc = "resolve"
    /\ jmode \in {"server", "oneshot"}
    /\ models \in [Workers -> BOOLEAN]
    /\ loaded_models = models
    /\ jmode = "oneshot" => models["whisperx"] /\ models["clinical"]
    /\ \E st \in BOOLEAN, sc \in BOOLEAN, a \in AudioInputs :
         job = NewJob(st, sc, a)

OsStages ==
    \/ OsResolve
    \/ OsTranscribe
    \/ OsTranslate
    \/ OsExtract
    \/ OsFinish

JobNext == SrvStages \/ OsStages

SpecJob == JobInit /\ [][JobNext]_vars

\* One recording through the transcriber.
TurnsInit ==
    /\ pc = "run"
    /\ cur = NoLine
    /\ stdin = <<>>
    /\ nlines = 0
    /\ nread = 0
    /\ msg = NoMsg
    /\ main_saved = "stdout"
    /\ bgpc = "done"
    /\ loaded_models = NoneLoaded
    /\ bg_saved = "stdout"
    /\ models = NoneLoaded
    /\ models_loading_errors = <<>>
    /\ models_ready_event = TRUE
    /\ sys_stdout = "stdout"
    /\ stdout = <<>>
    /\ stderr = <<>>
    /\ JobIdle
    /\ LibIdle
    /\ tpc = "start"
    /\ segs = <<>>
    /\ diar = "none"
    /\ lean = <<>>

TurnsNext ==
    \/ Transcribed
    \/ TranscribeRaises
    \/ TranscribeAndDiarize
    \/ SaveLean

SpecTurns == TurnsInit /\ [][TurnsNext]_vars

\* The server after the loader thread has finished with the registry reg:
\* the client waited for the loader's status line, and sends its lines only
\* now. Standard output holds the constructors' prints and the status line.
MaxBusyLines == 2

LoadOrder == <<"whisperx", "translator", "clinical", "s3">>

RECURSIVE LoaderPrints(_, _)
LoaderPrints(reg, i) ==
    IF i > Len(LoadOrder) THEN <<>>
    ELSE (IF reg[LoadOrder[i]]
            THEN <<HeadChunk(PrintMsg("bg", 0, LoadOrder[i])),
                   TailChunk(PrintMsg("bg", 0, LoadOrder[i]))>>
            ELSE <<>>) \o LoaderPrints(reg, i + 1)

ReadyStatus == Response("bg", 0, "health", "ok", TRUE, FALSE, TRUE)

BusyInit ==
    /\ pc = "read"
    /\ cur = NoLine
    /\ stdin = <<>>
    /\ nlines = 0
    /\ nread = 0
    /\ msg = NoMsg
    /\ main_saved = "stdout"
    /\ bgpc = "done"
    /\ bg_saved = "stdout"
    /\ models \in {r \in [Workers -> BOOLEAN] : r["whisperx"]}
    /\ loaded_models = models
    /\ models_loading_errors =
         SelectSeq(LoadOrder, LAMBDA w : ~models[w] /\ w # "translator")
    /\ models_ready_event = TRUE
    /\ sys_stdout = "stdout"
    /\ stdout = LoaderPrints(models, 1)
                  \o <<HeadChunk(ReadyStatus), TailChunk(ReadyStatus)>>
    /\ stderr = <<>>
    /\ JobIdle
    /\ TurnsIdle
    /\ LibIdle

BusySend == ClientSends(MaxBusyLines)

BusyNext ==
    \/ BusySend
    \/ ReadLine
    \/ Eof
    \/ ProcessCommand
    \/ ProcessRun
    \/ RunReturn
    \/ MainSendHead
    \/ MainSendTail
    \/ SrvStages

SpecBusy == BusyInit /\ [][BusyNext]_vars

\* extract_clean_format on the segments of a diarized recording.
LeanInit ==
    /\ pc = "run"
    /\ cur = NoLine
    /\ stdin = <<>>
    /\ nlines = 0
    /\ nread = 0
    /\ msg = NoMsg
    /\ main_saved = "stdout"
    /\ bgpc = "done"
    /\ loaded_models = NoneLoaded
    /\ bg_saved = "stdout"
    /\ models = NoneLoaded
    /\ models_loading_errors = <<>>
    /\ models_ready_event = TRUE
    /\ sys_stdout = "stdout"
    /\ stdout = <<>>
    /\ stderr = <<>>
    /\ JobIdle
    /\ LibIdle
    /\ tpc = "diarizing"
    /\ segs = <<>>
    /\ diar = "ok"
    /\ lean = <<>>

LeanNext ==
    \/ NextSegment
    \/ Diarized
    \/ SaveLean

SpecLean == LeanInit /\ [][LeanNext]_vars

\* What every library specification leaves at rest: the server and the job.
SrvIdle ==
    /\ pc = "run"
    /\ cur = NoLine
    /\ stdin = <<>>
    /\ nlines = 0
    /\ nread = 0
    /\ msg = NoMsg
    /\ main_saved = "stdout"
    /\ bgpc = "done"
    /\ loaded_models = NoneLoaded
    /\ bg_saved = "stdout"
    /\ models = NoneLoaded
    /\ models_loading_errors = <<>>
    /\ models_ready_event = TRUE
    /\ sys_stdout = "stdout"
    /\ stdout = <<>>
    /\ stderr = <<>>

\* One call of translate_json on a lean transcript.
TranslateInit ==
    /\ SrvIdle
    /\ JobIdle
    /\ TurnsIdle
    /\ DlIdle
    /\ AwsIdle
    /\ CxIdle
    /\ xpc = "start"
    /\ given \in Transcripts
    /\ json_data = given
    /\ translated_data = given
    /\ translated_texts = <<>>
    /\ api_calls = <<>>
    /\ bulk_reply = NoReply
    /\ gaps = <<>>

TranslateNext ==
    \/ TranslateJsonBegin
    \/ TranslateBulkConversation
    \/ TranslateTurn
    \/ TranslateJsonEnd

SpecTranslate == TranslateInit /\ [][TranslateNext]_vars

\* The calls of download_audio_file on one downloader, the cache empty.
ResolveInit == SrvIdle /\ JobIdle /\ TurnsIdle /\ LibIdle

ResolveNext == DownloadAudioFile

SpecResolve == ResolveInit /\ [][ResolveNext]_vars

\* The calls of verify_s3_file on one AWSTranscriber.
RegionInit == SrvIdle /\ JobIdle /\ TurnsIdle /\ LibIdle

RegionNext == VerifyS3File

SpecRegion == RegionInit /\ [][RegionNext]_vars

\* One call of extract_clinical_info.
ExtractInit ==
    /\ SrvIdle
    /\ JobIdle
    /\ TurnsIdle
    /\ XlIdle
    /\ DlIdle
    /\ AwsIdle
    /\ cpc = "start"
    /\ transcript_text \in Texts
    /\ generator \in BOOLEAN
    /\ outputs = <<>>
    /\ clinical = NoRecord

ExtractNext ==
    \/ ExtractBegin
    \/ Attempt

SpecExtract == ExtractInit /\ [][ExtractNext]_vars

\* ================================ the claims ==============================
Indices(q) == 1..Len(q)

\* The complete response lines of the dispatcher for request n on stdout.
MainTails(n) ==
    {i \in Indices(stdout) : /\ stdout[i].part = 2
                             /\ stdout[i].msg.src = "main"
                             /\ stdout[i].msg.typ # "print"
                             /\ stdout[i].msg.req = n}

\* The dispatcher has handled every line it read.
Handled == pc \in {"read", "exited"}

\* C1: a health request is answered on standard output with status "ok";
\* with ready=false when the ready event is still not set once the answer is
\* out, and with ready=true when the request was read after the event was set.
C1_HealthAnswered ==
    (Handled /\ cur.kind = "health") =>
        \E i \in MainTails(cur.n) :
            /\ stdout[i].msg.typ = "health"
            /\ stdout[i].msg.status = "ok"
            /\ ~models_ready_event => ~stdout[i].msg.ready
            /\ cur.readAfterReady => stdout[i].msg.ready

\* C2: when the background loader has ended, whatever way its workers'
\* initialisations and warm-ups ended, the ready event is set.
C2_LoaderEndsReady ==
    bgpc \in {"done", "dead"} => models_ready_event

\* C3: standard output is a sequence of complete response lines, plus at most
\* one head of the line being written: every piece is of a response, every
\* head is followed at once by its own tail, every tail follows its own head.
C3_Serialized ==
    \A i \in Indices(stdout) :
        /\ stdout[i].msg.typ # "print"
        /\ stdout[i].part = 1 =>
             \/ i = Len(stdout)
             \/ stdout[i + 1] = TailChunk(stdout[i].msg)
        /\ stdout[i].part = 2 =>
             /\ i > 1
             /\ stdout[i - 1] = HeadChunk(stdout[i].msg)

\* C4: the server is never ended by a line, and once the dispatcher is back
\* at reading, every non-empty line read has exactly one response line on
\* standard output, of status "error" for a malformed line.
C4_OneResponsePerLine ==
    /\ pc # "crashed"
    /\ Handled =>
         /\ \A n \in 1..nread : Cardinality(MainTails(n)) = 1
         /\ cur.kind \in {"notjson", "nonobject", "unknown"} =>
              \A i \in MainTails(cur.n) : stdout[i].msg.status = "error"

\* ------------------------------------------------------- claims on one job
Stages == <<"Resolve", "Transcribe", "Translate", "Extract">>
Rank(st) == CHOOSE i \in Indices(Stages) : Stages[i] = st
Started(st) == \E i \in Indices(started) : started[i] = st
Ended == jpc = "ended"

\* C5: the stages that started did so in the order Resolve, Transcribe,
\* Translate, Extract, and when a stage has started, the artifact of every
\* stage that ran before it is a file on disk.
C5_OrderedWithArtifacts ==
    /\ \A i, k \in Indices(started) :
         i < k => Rank(started[i]) < Rank(started[k])
    /\ Started("Transcribe") => Exists(job.audio_path)
    /\ Started("Translate") =>
         Exists(job.raw_transcript) /\ Exists(job.lean_transcript)
    /\ Started("Extract") =>
         /\ Exists(job.raw_transcript) /\ Exists(job.lean_transcript)
         /\ job.translate = "ok" => Exists(job.translated_transcript)

\* C6: when the job has ended, every file a stage of the job wrote is on disk
\* with the content that stage gave it.
C6_ArtifactsKept ==
    Ended => \A w \in job.wrote : w[1] \in DOMAIN fs /\ fs[w[1]] = w[2]

\* C6 witness: a job that failed at Extract after Resolve, Transcribe and
\* Translate wrote their files.
C6_FailedAfterThreeStages ==
    /\ Ended
    /\ job.status = "failed"
    /\ job.extract = "failed"
    /\ job.translate = "ok"
    /\ Cardinality(job.wrote) = 4

\* C7: a job ends "done" only when Transcribe started and left a raw and a
\* lean transcript; a job that ended without them, or with the transcriber
\* absent from the registry, ended "failed" with neither Translate nor Extract
\* started.
C7_TranscribeRequired ==
    /\ job.status = "done" =>
         /\ Started("Transcribe")
         /\ job.raw_transcript # NoneV
         /\ job.lean_transcript # NoneV
    /\ (Ended /\ \/ job.lean_transcript = NoneV
                 \/ ~models["whisperx"]) =>
         /\ job.status = "failed"
         /\ ~Started("Translate")
         /\ ~Started("Extract")

\* C7 witness: a server job whose audio resolved, ended with the transcriber
\* absent from the registry.
C7_EndedWithoutTranscriber ==
    /\ Ended
    /\ jmode = "server"
    /\ ~models["whisperx"]
    /\ job.audio_path # NoneV
    /\ ~job.skip_translation /\ models["translator"]

\* C8: a job whose Translate stage failed is not failed by it: Extract gets
\* the lean transcript and the job ends "done".
C8_TranslateFailureNonFatal ==
    job.translate = "failed" =>
        /\ job.status # "failed"
        /\ job.translated_transcript = job.lean_transcript
        /\ Ended => job.status = "done"

\* The result the job would return had Extract been skipped.
ResultIfSkipped ==
    LET j == [job EXCEPT !.clinical_result = FALSE] IN
    IF jmode = "server" THEN Done(j).result ELSE OsDone(j).result

\* C9: a job whose Extract stage failed ends "done", returns the transcripts
\* of the earlier stages, and its result differs from the result of the same
\* job with Extract skipped.
C9_ExtractFailureRecorded ==
    (Ended /\ job.extract \in {"failed", "failed_write"}) =>
        /\ job.status = "done"
        /\ {"raw_transcript", "lean_transcript"} \subseteq job.result.returned
        /\ job.result # ResultIfSkipped

\* ------------------------------------------------ claims on the transcriber
\* C10: when the diarization failed or no token was given, the transcriber
\* returned all the same, and every turn of the lean transcript has the
\* speaker SPEAKER_00.
C10_DefaultSpeaker ==
    diar \in {"failed", "notoken"} =>
        /\ tpc \in {"returned", "cleaned"}
        /\ tpc = "cleaned" =>
             \A k \in Indices(lean) : lean[k].speaker = "SPEAKER_00"

\* C10 witness: a lean transcript of two turns made after a failed
\* diarization.
C10_TwoTurnsUndiarized ==
    /\ tpc = "cleaned"
    /\ diar = "failed"
    /\ Len(lean) = 2
\* C11: while a run job is inside a stage the dispatcher still answers health
\* probes: a health request the client sent after a run request and before
\* that job finished is answered before the job's own response is written.
\* Stated on the pipe: once the response of run request k is on standard
\* output, no health line that was sent during run k is still unread.
RunTails(n) == {i \in MainTails(n) : stdout[i].msg.typ = "run"}

C11_HealthNotBehindRun ==
    \A i \in Indices(stdin) :
        (stdin[i].kind = "health" /\ stdin[i].sentDuring > 0)
            => RunTails(stdin[i].sentDuring) = {}

\* The response lines of the dispatcher for request n on standard error.
MainErrTails(n) ==
    {i \in Indices(stderr) : /\ stderr[i].part = 2
                             /\ stderr[i].msg.src = "main"
                             /\ stderr[i].msg.typ # "print"
                             /\ stderr[i].msg.req = n}

\* C12: when the interrupt signal arrives while a request is being processed,
\* the server writes the response of that request before it exits: once the
\* server has ended on the interrupt, every non-empty line it read has a
\* complete response line, on whichever stream sys.stdout named.
C12_InterruptedAfterResponse ==
    pc = "interrupted" =>
        \A n \in 1..nread : MainTails(n) # {} \/ MainErrTails(n) # {}

\* C13: every response to a run request has status "done" or "failed", and
\* every "failed" one carries a trace next to its error.
C13_FailedCarriesTrace ==
    \A i \in Indices(stdout) :
        (stdout[i].part = 2 /\ stdout[i].msg.typ = "run") =>
            /\ stdout[i].msg.status \in {"done", "failed"}
            /\ stdout[i].msg.status = "failed" => stdout[i].msg.trace

\* ------------------------------------------- claims on extract_clean_format
\* C14: for segments in the order of their start times, the turns of the lean
\* transcript are numbered 1..N in the order they are written, also when
\* short turns were dropped between them, and their start times never
\* decrease.
C14_TurnIdsInOrder ==
    tpc = "cleaned" =>
        /\ \A i \in Indices(lean) : lean[i].turn_id = i
        /\ \A i \in Indices(lean) :
             i > 1 => lean[i - 1].start_time <= lean[i].start_time

\* Three segments, each of another speaker than the one before, of which one
\* was too short for a turn.
C14_DroppedBetween ==
    /\ tpc = "cleaned"
    /\ Len(segs) = 3
    /\ Len(lean) = 2
    /\ segs[1].start > 0
    /\ segs[2].end - segs[2].start < MinDurationTicks
    /\ \A i \in 2..3 : SegmentSpeakers(segs)[i] # SegmentSpeakers(segs)[i - 1]

\* Every segment is of another speaker than the one before: each is a turn
\* the second pass accumulates on its own.
EachItsOwnTurn ==
    \A i \in 2..Len(segs) :
        SegmentSpeakers(segs)[i] # SegmentSpeakers(segs)[i - 1]

LongEnough == {i \in Indices(segs) :
                  segs[i].end - segs[i].start >= MinDurationTicks}

\* C15: an accumulated turn is written exactly when its end minus its start
\* is at least one second, whatever its start time (0 included) and its
\* position; a written turn has duration = end_time - start_time >= 1 second.
C15_EmittedIffLongEnough ==
    tpc = "cleaned" =>
        /\ EachItsOwnTurn => Len(lean) = Cardinality(LongEnough)
        /\ \A i \in Indices(lean) :
             /\ lean[i].duration = lean[i].end_time - lean[i].start_time
             /\ lean[i].duration >= MinDurationTicks

\* C16: two turns that follow each other in the lean transcript have
\* different speakers, or the second starts more than two seconds after the
\* end of the first.
C16_NeighboursDiffer ==
    tpc = "cleaned" =>
        \A i \in Indices(lean) :
            i > 1 => \/ lean[i].speaker # lean[i - 1].speaker
                     \/ lean[i].start_time - lean[i - 1].end_time > GapTicks

\* --------------------------------------------------- claims on translate_json
\* C17: for a transcript that is not English, whatever the API did (a bulk
\* answer with all, some, or other markers, a bulk error, per-turn errors),
\* translate_json returns languages_detected = ["en"] and as many turns as it
\* was given, each with the turn_id and the speaker of the turn at its
\* position, and the caller's object is as it was passed.
C17_ShapeKept ==
    (xpc = "returned" /\ ~ShouldSkipTranslation(given)) =>
        /\ translated_data.languages_detected = <<"en">>
        /\ Len(translated_data.turns) = Len(given.turns)
        /\ \A i \in Indices(given.turns) :
             /\ translated_data.turns[i].turn_id = given.turns[i].turn_id
             /\ translated_data.turns[i].speaker = given.turns[i].speaker
        /\ json_data = given

\* The turns that were sent and whose text came back empty.
Untranslated ==
    {i \in TurnMapping(given.turns) :
        i > Len(translated_texts) \/ translated_texts[i] = ""}

\* Two turns with text, a bulk answer that left one of them out and
\* translated the other.
C17_PartialBulkApplied ==
    /\ xpc = "returned"
    /\ ~ShouldSkipTranslation(given)
    /\ bulk_reply.kind = "parsed"
    /\ bulk_reply.sent = 2
    /\ Cardinality(Untranslated) = 1
    /\ \E i \in Indices(given.turns) :
         translated_data.turns[i].text # given.turns[i].text

\* C18: when the bulk answer, parsed by its [TURN_n] markers, has fewer
\* translated turns than turns with text were sent, the translator goes on
\* to translate turn by turn: one request for each turn that has text.
C18_FallsBackOnPartialBulk ==
    (/\ xpc = "returned"
     /\ bulk_reply.kind = "parsed"
     /\ Untranslated # {}) =>
        \A i \in TurnMapping(given.turns) :
            \E k \in Indices(api_calls) : api_calls[k] = ApiCall("turn", i)

C20_RebindForOneRequest ==
    \A i \in Indices(heads) :
        (heads[i].object_region = ConfiguredRegion
           /\ heads[i].client # NoRegion)
            => heads[i].client = ConfiguredRegion

\* C21: when the head request fails, the caller of the resolver can tell
\* which of object-not-found, access-denied, no-such-bucket or another
\* failure it was: what it is given could not have come from another kind.
C21_FailureKindsDistinct ==
    head_code \in HeadFailures =>
        \A code \in HeadFailures \ {head_code} :
            raised # RaisedOnHead(code, raised.ref)

\* ------------------------------------------ claims on extract_clinical_info
\* The attempts whose output was a JSON object.
Parsed == {k \in Indices(outputs) :
              outputs[k] \in {"object", "fenced_object", "other_object"}}

\* C22: with a generator loaded a call sends at most 3 generation requests;
\* it returns the record of the first attempt whose output is a JSON object,
\* and when all 3 attempts failed (the generator raised, returned nothing, or
\* text that is no JSON object) it returns what the rule strategy gives.
C22_ThreeAttemptsThenRules ==
    /\ Len(outputs) <= 3
    /\ (cpc = "returned" /\ generator /\ transcript_text # {}) =>
         IF Parsed = {}
           THEN /\ Len(outputs) = 3
                /\ clinical = RuleBasedExtraction(transcript_text)
           ELSE /\ clinical.method = "llm"
                /\ clinical.attempt = Len(outputs)
                /\ \A k \in Parsed : clinical.attempt <= k

\* Two attempts failed, one of them with a JSON value that is no object, and
\* the third gave the record.
C22_ThirdAttemptReturned ==
    /\ cpc = "returned"
    /\ Len(outputs) = 3
    /\ outputs[1] = "nonobject"
    /\ outputs[2] = "exception"
    /\ clinical.method = "llm"

\* C23: the record of the rule strategy has exactly the field names the LLM
\* strategy is asked for.
C23_SameSchema ==
    (cpc = "returned" /\ clinical.method = "rule") =>
        clinical.keys = ClinicalRecordFields


\* C24: a run job reads the registry only once the ready event is set: no
\* step of run_pipeline that looks a worker up in the registry (the
\* transcriber's lookup, which fails the job when the worker is absent) is
\* taken while the event is not set.
C24_RegistryReadWhenReady ==
    [][SrvTranscribe => models_ready_event]_vars


\* C25: every line on standard output is the dispatcher's response to a
\* request line it has read, and there are at most as many complete lines as
\* request lines read: no line is written unasked.
C25_OnlyResponsesOnStdout ==
    /\ \A i \in Indices(stdout) :
         /\ stdout[i].msg.src = "main"
         /\ stdout[i].msg.typ # "print"
         /\ stdout[i].msg.req \in 1..nread
    /\ Cardinality({i \in Indices(stdout) : stdout[i].part = 2}) <= nread


\* C26: in the first pass of extract_clean_format a segment whose words give
\* no speaker takes the speaker of the nearest of the up to 3 segments before
\* it that has one, and SPEAKER_00 when none has: the turns saved are the
\* turns of the segments with the speakers so assigned.
NearestSpeaker(segment_speakers, i) ==
    LET from == IF i - SmoothingWindow > 1 THEN i - SmoothingWindow ELSE 1
        with == {j \in from..(i - 1) : segment_speakers[j] # NoSpeaker}
    IN IF with = {} THEN DefaultSpeaker
       ELSE segment_speakers[CHOOSE j \in with : \A k \in with : k <= j]

RECURSIVE NearestFrom(_, _, _)
NearestFrom(ss, i, segment_speakers) ==
    IF i > Len(ss) THEN segment_speakers
    ELSE LET own == MostCommonSpeaker(ss[i].words)
             segment_speaker ==
                 IF ss[i].text = <<>> THEN NoSpeaker
                 ELSE IF own # NoSpeaker THEN own
                 ELSE NearestSpeaker(segment_speakers, i)
         IN NearestFrom(ss, i + 1, Append(segment_speakers, segment_speaker))

C26_NearestPrecedingSpeaker ==
    tpc = "cleaned" => lean = TurnsFrom(segs, NearestFrom(segs, 1, <<>>), 1, NoTurn)


\* C27: no segment the hallucination filter lets through says a phrase of 2,
\* 3, 4 or 5 words twice in a row, however many words the segment has.
SaysPhraseTwice(words) ==
    \E phrase_len \in 2..5 :
        \E i \in 0..(Len(words) - phrase_len * 2) :
            SubSeq(words, i + 1, i + phrase_len)
              = SubSeq(words, i + phrase_len + 1, i + phrase_len * 2)

C27_NoRepeatedPhraseKept ==
    tpc = "returned" =>
        \A i \in Indices(segs) : ~SaysPhraseTwice(segs[i].text)


\* C30: the hallucination filter keeps the order of the segments and is
\* idempotent: what transcribe_and_diarize returns is a subsequence of the
\* segments it had, no two of them have the same text, and the filter run
\* over it again returns it unchanged. The step from "start" to "returned" is
\* the one of TranscribeAndDiarize.
SameSegment(s, t) ==
    s.text = t.text /\ s.start = t.start /\ s.end = t.end /\ s.low = t.low

\* sub[k..] is found, in order, in ss[i..]: each segment of sub is matched
\* with the first segment of ss not yet passed that is the same.
RECURSIVE SubsequenceFrom(_, _, _, _)
SubsequenceFrom(sub, k, ss, i) ==
    IF k > Len(sub) THEN TRUE
    ELSE IF i > Len(ss) THEN FALSE
    ELSE IF SameSegment(sub[k], ss[i])
      THEN SubsequenceFrom(sub, k + 1, ss, i + 1)
      ELSE SubsequenceFrom(sub, k, ss, i + 1)

IsSubsequence(sub, ss) == SubsequenceFrom(sub, 1, ss, 1)

C30_FilterIdempotent ==
    /\ [][(tpc = "start" /\ tpc' = "returned") =>
             IsSubsequence(segs', segs)]_vars
    /\ [](tpc = "returned" =>
             /\ \A k, m \in Indices(segs) :
                    k # m => segs[k].text # segs[m].text
             /\ FilterHallucinations(segs) = segs)

\* The filter dropped the first of two segments and kept the second.
C30_DroppedAndKept ==
    /\ tpc = "returned"
    /\ Len(segs) = 1
    /\ segs[1].start \in {1, 2}


\* C28: between two consecutive requests of one translation, the bulk request
\* and the requests of the per-turn fallback, at least rate_limit_delay
\* passes: every request that is followed by another was sent 6.5 s or more
\* before it.
C28_RequestsSpaced ==
    \A k \in Indices(api_calls) :
        k < Len(api_calls) => gaps[k] >= RateLimitDelay


\* C29: the references having distinct buckets and keys, the file that
\* download_audio_file returns for a reference holds the bytes of the object
\* under that reference's bucket and key, not those fetched for another.
C29_OwnContentReturned ==
    /\ \A r1, r2 \in Refs :
         r1 # r2 => <<r1.bucket, Key(r1)>> # <<r2.bucket, Key(r2)>>
    /\ resolved # <<>> =>
         LET last == resolved[Len(resolved)] IN
         last.path # NoPath => fs[last.path] = ObjectContent(last.ref)

=============================================================================
